---- MODULE Spec2Model ----
(***************************************************************************)
(* Helix module host: the supervisor (HelixDaemon), the dependency         *)
(* resolver (DependencyResolver) and the dynamic loader (ModuleLoader).    *)
(*                                                                         *)
(* Every supervisor operation is one atomic action.  The operations are    *)
(* written as operators over a record d that carries the fields they read  *)
(* and write:                                                              *)
(*   d.reg  module_registry_   name -> [manifest, state, error_message]    *)
(*   d.ld   loaded_modules_    name -> [initialized, running]              *)
(*   d.le   last_error_        "" or "error": whether a message is held    *)
(*   d.disk the installed module directories: name -> manifest             *)
(*   d.file the state file .helix_state.json: [present, entries]           *)
(*   d.log  the calls the operation made into module libraries, in order   *)
(* A call into a library (dlopen, a hook, dlclose) can succeed or fail,    *)
(* and containers are iterated in an unspecified order (unordered_map,     *)
(* unordered_set): an operation has a set of possible outcomes, so the     *)
(* operators return sets of [ok, d] records.                               *)
(***************************************************************************)
EXTENDS Integers, Sequences, FiniteSets, TLC

VARIABLES
    pc,               \* position of main(): "boot", then "serving" commands
    initialized,      \* HelixDaemon::initialized_
    module_registry,  \* HelixDaemon::module_registry_
    modules,          \* DependencyResolver::modules_  (name -> manifest)
    dependency_graph, \* DependencyResolver::dependency_graph_
    reverse_graph,    \* DependencyResolver::reverse_graph_
    loaded_modules,   \* ModuleLoader::loaded_modules_
    last_error,       \* HelixDaemon::last_error_
    disk,             \* installed module directories: name -> manifest
    state_file        \* .helix_state.json: [present, entries]

vars == <<pc, initialized, module_registry, modules, dependency_graph,
          reverse_graph, loaded_modules, last_error, disk, state_file>>

(***************************************************************************)
(* Module names, versions, requirements, manifests.                        *)
(***************************************************************************)
\* Names that packages exist for, and a name no package provides.
Names == {"a", "b", "c"}
Phantom == "z"

\* A version string MAJOR.MINOR.PATCH followed by a (possibly empty) suffix.
V(major, minor, patch) ==
    [major |-> major, minor |-> minor, patch |-> patch, suffix |-> ""]

\* A requirement string: an operator ("" when absent) and a version; the
\* empty string is op = "empty".
Req(op, version) == [op |-> op, version |-> version]
NoReq == [op |-> "empty", version |-> V(0, 0, 0)]

Dep(name, req, optional) == [name |-> name, version |-> req, optional |-> optional]

\* minimum_core_version / minimum_api_version: a version string, or empty.
NoMinimum == [present |-> FALSE, version |-> V(0, 0, 0)]
Minimum(version) == [present |-> TRUE, version |-> version]

\* A manifest with its host-compatibility minimums.
ManifestFor(name, version, deps, minimum_core_version, minimum_api_version) ==
    [name |-> name, version |-> version, dependencies |-> deps,
     minimum_core_version |-> minimum_core_version,
     minimum_api_version |-> minimum_api_version]

\* A manifest that states no minimum.
Manifest(name, version, deps) ==
    ManifestFor(name, version, deps, NoMinimum, NoMinimum)

\* The packages an operator can install.
\*   c -> b -> a is a chain; c also needs a >= 2.0.0.
\*   a2 closes the cycle a -> c -> b -> a.
\*   b2 needs the phantom z (never installable) and optionally a.
pa1 == Manifest("a", V(1, 5, 0), <<>>)
pa2 == Manifest("a", V(2, 0, 0), <<Dep("c", NoReq, FALSE)>>)
pb1 == Manifest("b", V(1, 0, 0), <<Dep("a", Req(">=", V(1, 0, 0)), FALSE)>>)
pb2 == Manifest("b", V(1, 1, 0), <<Dep(Phantom, NoReq, FALSE), Dep("a", NoReq, TRUE)>>)
pc1 == Manifest("c", V(1, 0, 0),
                <<Dep("b", NoReq, FALSE),
                  Dep("a", Req(">=", V(2, 0, 0)), FALSE),
                  Dep(Phantom, NoReq, TRUE)>>)
Packages == {pa1, pa2, pb1, pb2, pc1}

Range(s) == {s[i] : i \in DOMAIN s}

\* All enumerations of a finite set as a sequence (an unspecified iteration order).
RECURSIVE Perms(_)
Perms(S) ==
    IF S = {} THEN {<<>>}
    ELSE UNION {{<<x>> \o p : p \in Perms(S \ {x})} : x \in S}

(***************************************************************************)
(* Semantic versions (DependencyResolver, static helpers).                 *)
(***************************************************************************)
\* regex_match against ^(\d+)\.(\d+)\.(\d+) : the whole string must match,
\* so a version carrying a suffix does not parse.
parse_version_components(version) ==
    IF version.suffix = ""
    THEN [ok |-> TRUE, major |-> version.major, minor |-> version.minor,
          patch |-> version.patch]
    ELSE [ok |-> FALSE, major |-> 0, minor |-> 0, patch |-> 0]

\* compare_versions that never answers -1.
compare_versions_no_less(version1, version2) ==
    LET p1 == parse_version_components(version1)
        p2 == parse_version_components(version2)
    IN  IF ~p1.ok \/ ~p2.ok THEN 0
        ELSE IF p1.major # p2.major \/ p1.minor # p2.minor \/ p1.patch # p2.patch
        THEN 1
        ELSE 0

compare_versions(version1, version2) ==
    LET p1 == parse_version_components(version1)
        p2 == parse_version_components(version2)
    IN  IF ~p1.ok \/ ~p2.ok THEN 0
        ELSE IF p1.major # p2.major THEN (IF p1.major > p2.major THEN 1 ELSE -1)
        ELSE IF p1.minor # p2.minor THEN (IF p1.minor > p2.minor THEN 1 ELSE -1)
        ELSE IF p1.patch # p2.patch THEN (IF p1.patch > p2.patch THEN 1 ELSE -1)
        ELSE 0

version_satisfies(available_version, required_version) ==
    IF required_version.op = "empty" THEN TRUE
    ELSE
      LET op == required_version.op
          version == required_version.version
          cmp == compare_versions(available_version, version)
          a == parse_version_components(available_version)
          r == parse_version_components(version)
      IN  CASE op = "==" \/ op = "" -> cmp = 0
            [] op = ">=" -> cmp >= 0
            [] op = ">"  -> cmp > 0
            [] op = "<=" -> cmp <= 0
            [] op = "<"  -> cmp < 0
            [] op = "~"  -> /\ a.ok /\ r.ok
                            /\ a.major = r.major /\ a.minor = r.minor
                            /\ a.patch >= r.patch
            [] OTHER -> FALSE

(***************************************************************************)
(* DependencyResolver.  mods is modules_, fwd is dependency_graph_, rev is  *)
(* reverse_graph_.                                                          *)
(***************************************************************************)
\* build_dependency_graph: both maps rebuilt from modules_.
\* build_dependency_graph that keeps the optional edges to unregistered names.
build_forward_keeps_optional(mods) ==
    [m \in DOMAIN mods |-> {dep.name : dep \in Range(mods[m].dependencies)}]

build_forward(mods) ==
    [m \in DOMAIN mods |->
        {dep.name : dep \in {x \in Range(mods[m].dependencies) :
                                ~(x.optional /\ x.name \notin DOMAIN mods)}}]

build_reverse(mods) ==
    LET fwd == build_forward(mods)
        keys == UNION {fwd[m] : m \in DOMAIN fwd}
    IN  [k \in keys |-> {m \in DOMAIN fwd : k \in fwd[m]}]

get_dependents(rev, module_name) ==
    IF module_name \in DOMAIN rev THEN rev[module_name] ELSE {}

\* find_missing_dependencies: the targets that are not registered, and the
\* mandatory dependencies of the registered targets that are not registered.
find_missing_dependencies(mods, targets) ==
    {t \in Range(targets) : t \notin DOMAIN mods}
    \cup UNION {{dep.name : dep \in {x \in Range(mods[t].dependencies) :
                                        ~x.optional /\ x.name \notin DOMAIN mods}}
                : t \in Range(targets) \cap DOMAIN mods}

\* detect_cycle_dfs: st = [visited, rec_stack, cycle_nodes]; the result is
\* the set of possible <<return value, st>> over the iteration orders of the
\* dependency sets.  A node stays on rec_stack when the call returns true.
RECURSIVE detect_cycle_dfs(_, _, _), detect_cycle_loop(_, _, _, _)
detect_cycle_dfs(fwd, node, st) ==
    detect_cycle_loop(fwd, node,
        IF node \in DOMAIN fwd THEN fwd[node] ELSE {},
        [st EXCEPT !.visited = @ \cup {node}, !.rec_stack = @ \cup {node}])

detect_cycle_loop(fwd, node, todo, st) ==
    IF todo = {}
    THEN {[found |-> FALSE, st |-> [st EXCEPT !.rec_stack = @ \ {node}]]}
    ELSE UNION {
        IF dep \in st.rec_stack
        THEN {[found |-> TRUE,
               st |-> [st EXCEPT !.cycle_nodes = @ \cup {node, dep}]]}
        ELSE IF dep \notin st.visited
        THEN UNION {
                IF r.found
                THEN {[found |-> TRUE,
                       st |-> [r.st EXCEPT !.cycle_nodes = @ \cup {node}]]}
                ELSE detect_cycle_loop(fwd, node, todo \ {dep}, r.st)
                : r \in detect_cycle_dfs(fwd, dep, st)}
        ELSE detect_cycle_loop(fwd, node, todo \ {dep}, st)
        : dep \in todo}

\* detect_circular_dependencies: the possible cycle_nodes sets.
RECURSIVE detect_circular_from(_, _, _, _)
detect_circular_from(fwd, targets, i, st) ==
    IF i > Len(targets) THEN {st.cycle_nodes}
    ELSE IF targets[i] \in st.visited
    THEN detect_circular_from(fwd, targets, i + 1, st)
    ELSE UNION {detect_circular_from(fwd, targets, i + 1, r.st)
                : r \in detect_cycle_dfs(fwd, targets[i], st)}

detect_circular_dependencies(fwd, targets) ==
    detect_circular_from(fwd, targets, 1,
        [visited |-> {}, rec_stack |-> {}, cycle_nodes |-> {}])

\* topological_sort, first half: the registered targets and everything
\* reachable from them through dependency_graph_.
RECURSIVE all_needed_from(_, _)
all_needed_from(fwd, S) ==
    LET next == S \cup UNION {fwd[m] : m \in S \cap DOMAIN fwd}
    IN  IF next = S THEN S ELSE all_needed_from(fwd, next)

all_needed(mods, fwd, targets) ==
    all_needed_from(fwd, Range(targets) \cap DOMAIN mods)

\* topological_sort, second half: Kahn's algorithm.  The queue starts with
\* the in-degree-zero nodes in the iteration order of in_degree; removing a
\* node pushes the dependents that reach zero in the iteration order of
\* reverse_graph_[node].
RECURSIVE kahn(_, _, _, _, _)
\* Kahn's algorithm with the in-degrees never decremented: only the nodes
\* that start at zero are ever emitted.
kahn_no_decrement(rev, needed, in_degree, zero_in_degree, load_order) ==
    {load_order \o zero_in_degree}

kahn(rev, needed, in_degree, zero_in_degree, load_order) ==
    IF zero_in_degree = <<>> THEN {load_order}
    ELSE
      LET current == Head(zero_in_degree)
          dependents == get_dependents(rev, current) \cap needed
          deg == [m \in needed |->
                    IF m \in dependents THEN in_degree[m] - 1 ELSE in_degree[m]]
          ready == {m \in dependents : deg[m] = 0}
      IN  UNION {kahn(rev, needed, deg, Tail(zero_in_degree) \o p,
                      Append(load_order, current))
                 : p \in Perms(ready)}

topological_sort(mods, fwd, rev, targets) ==
    LET needed == all_needed(mods, fwd, targets)
        in_degree == [m \in needed |->
                        Cardinality((IF m \in DOMAIN fwd THEN fwd[m] ELSE {})
                                    \cap needed)]
        orders == UNION {kahn(rev, needed, in_degree, q, <<>>)
                         : q \in Perms({m \in needed : in_degree[m] = 0})}
    IN  {[ok |-> Len(o) = Cardinality(needed), load_order |-> o] : o \in orders}

\* resolve_dependencies that looks for no cycle and takes the needed modules
\* in any order.
resolve_dependencies_ignores_cycles(mods, fwd, rev, target_modules) ==
    LET missing == find_missing_dependencies(mods, target_modules)
    IN  IF missing # {}
        THEN {[success |-> FALSE, load_order |-> <<>>,
               missing_deps |-> missing, circular_deps |-> {}]}
        ELSE {[success |-> TRUE, load_order |-> o,
               missing_deps |-> {}, circular_deps |-> {}]
              : o \in Perms(all_needed(mods, fwd, target_modules))}

\* resolve_dependencies: the possible results.  An empty target list means
\* every registered module.
resolve_dependencies(mods, fwd, rev, target_modules) ==
    LET targetss == IF target_modules = <<>> THEN Perms(DOMAIN mods)
                    ELSE {target_modules}
    IN  UNION {
          LET missing == find_missing_dependencies(mods, targets)
          IN  IF missing # {}
              THEN {[success |-> FALSE, load_order |-> <<>>,
                     missing_deps |-> missing, circular_deps |-> {}]}
              ELSE UNION {
                  IF circular # {}
                  THEN {[success |-> FALSE, load_order |-> <<>>,
                         missing_deps |-> {}, circular_deps |-> circular]}
                  ELSE {[success |-> t.ok, load_order |-> t.load_order,
                         missing_deps |-> {}, circular_deps |-> {}]
                        : t \in topological_sort(mods, fwd, rev, targets)}
                  : circular \in detect_circular_dependencies(fwd, targets)}
          : targets \in targetss}

(***************************************************************************)
(* The daemon state the operations work on.                                *)
(***************************************************************************)
\* enum class ModuleState (UNKNOWN stands for an absent record).
States == {"INSTALLED", "LOADED", "INITIALIZED", "RUNNING", "STOPPED", "ERROR"}

Err(msg, name) == [msg |-> msg, name |-> name]

Ok(d) == [ok |-> TRUE, d |-> d]
Fail(d) == [ok |-> FALSE, d |-> d]

\* last_error_ is kept up to whether it is empty: the text is never read back
\* by the daemon except for that (enable_module tests last_error_.empty()).
set_last_error(d, err) == [d EXCEPT !.le = "error"]

update_module_state(d, module_name, new_state, error_message) ==
    IF module_name \in DOMAIN d.reg
    THEN [d EXCEPT !.reg[module_name].state = new_state,
                   !.reg[module_name].error_message = error_message]
    ELSE d

\* The names a manifest requires unconditionally.
MandatoryDeps(manifest) ==
    {dep.name : dep \in {x \in Range(manifest.dependencies) : ~x.optional}}

\* The mandatory dependencies the resolver records for a module that are not
\* RUNNING in the registry.
DepsDown(d, module_name) ==
    IF module_name \in DOMAIN d.mods
    THEN {x \in MandatoryDeps(d.mods[module_name]) :
            ~(x \in DOMAIN d.reg /\ d.reg[x].state = "RUNNING")}
    ELSE {}

\* A call into the library of module_name returned: call is "dlopen",
\* "init", "start", "stop", "destroy" or "dlclose", ok its success.  The
\* entry keeps which mandatory dependencies were not RUNNING at the call.
Called(d, call, module_name, ok) ==
    [d EXCEPT !.log = Append(@, [call |-> call, name |-> module_name, ok |-> ok,
                                 deps_down |-> DepsDown(d, module_name)])]

(***************************************************************************)
(* ModuleLoader.                                                           *)
(***************************************************************************)
\* load_module that opens the library again over an existing record.
loader_load_module_replaces(d, module_name) ==
    {Fail(Called(d, "dlopen", module_name, FALSE)),
     Ok([Called(d, "dlopen", module_name, TRUE) EXCEPT
           !.ld = [m \in DOMAIN d.ld \cup {module_name} |->
                     IF m = module_name
                     THEN [initialized |-> FALSE, running |-> FALSE]
                     ELSE d.ld[m]]])}

loader_load_module(d, module_name) ==
    IF module_name \in DOMAIN d.ld THEN {Fail(d)}
    ELSE {Fail(Called(d, "dlopen", module_name, FALSE)),
          Ok([Called(d, "dlopen", module_name, TRUE) EXCEPT
                !.ld = [m \in DOMAIN d.ld \cup {module_name} |->
                          IF m = module_name
                          THEN [initialized |-> FALSE, running |-> FALSE]
                          ELSE d.ld[m]]])}

loader_initialize_module(d, module_name) ==
    IF module_name \notin DOMAIN d.ld THEN {Fail(d)}
    ELSE IF d.ld[module_name].initialized THEN {Fail(d)}
    ELSE {Fail(Called(d, "init", module_name, FALSE)),
          Ok([Called(d, "init", module_name, TRUE) EXCEPT
                !.ld[module_name].initialized = TRUE])}

\* start_module of the loader without the test of initialized.
loader_start_module_unguarded(d, module_name) ==
    IF module_name \notin DOMAIN d.ld THEN {Fail(d)}
    ELSE IF d.ld[module_name].running THEN {Fail(d)}
    ELSE {Fail(Called(d, "start", module_name, FALSE)),
          Ok([Called(d, "start", module_name, TRUE) EXCEPT
                !.ld[module_name].running = TRUE])}

loader_start_module(d, module_name) ==
    IF module_name \notin DOMAIN d.ld THEN {Fail(d)}
    ELSE IF ~d.ld[module_name].initialized THEN {Fail(d)}
    ELSE IF d.ld[module_name].running THEN {Fail(d)}
    ELSE {Fail(Called(d, "start", module_name, FALSE)),
          Ok([Called(d, "start", module_name, TRUE) EXCEPT
                !.ld[module_name].running = TRUE])}

\* stop_module of the loader that clears running whatever the hook returns.
loader_stop_module_clears(d, module_name) ==
    IF module_name \notin DOMAIN d.ld THEN {Fail(d)}
    ELSE IF ~d.ld[module_name].running THEN {Fail(d)}
    ELSE {Fail([Called(d, "stop", module_name, FALSE) EXCEPT
                  !.ld[module_name].running = FALSE]),
          Ok([Called(d, "stop", module_name, TRUE) EXCEPT
                !.ld[module_name].running = FALSE])}

loader_stop_module(d, module_name) ==
    IF module_name \notin DOMAIN d.ld THEN {Fail(d)}
    ELSE IF ~d.ld[module_name].running THEN {Fail(d)}
    ELSE {Fail(Called(d, "stop", module_name, FALSE)),
          Ok([Called(d, "stop", module_name, TRUE) EXCEPT
                !.ld[module_name].running = FALSE])}

\* unload_module that goes on to destroy and close after a failed stop.
loader_unload_module_after_failed_stop(d, module_name) ==
    IF module_name \notin DOMAIN d.ld THEN {Fail(d)}
    ELSE UNION {
          LET d1 == IF s.d.ld[module_name].initialized
                    THEN Called(s.d, "destroy", module_name, TRUE) ELSE s.d
          IN  {Fail(Called(d1, "dlclose", module_name, FALSE)),
               Ok([Called(d1, "dlclose", module_name, TRUE) EXCEPT
                     !.ld = [m \in DOMAIN d1.ld \ {module_name} |-> d1.ld[m]]])}
        : s \in (IF d.ld[module_name].running
                 THEN loader_stop_module(d, module_name) ELSE {Ok(d)})}

loader_unload_module(d, module_name) ==
    IF module_name \notin DOMAIN d.ld THEN {Fail(d)}
    ELSE UNION {
        IF ~s.ok THEN {Fail(s.d)}
        ELSE
          LET d1 == IF s.d.ld[module_name].initialized
                    THEN Called(s.d, "destroy", module_name, TRUE) ELSE s.d
          IN  {Fail(Called(d1, "dlclose", module_name, FALSE)),
               Ok([Called(d1, "dlclose", module_name, TRUE) EXCEPT
                     !.ld = [m \in DOMAIN d1.ld \ {module_name} |-> d1.ld[m]]])}
        : s \in (IF d.ld[module_name].running
                 THEN loader_stop_module(d, module_name) ELSE {Ok(d)})}

(***************************************************************************)
(* HelixDaemon: start, stop, disable.                                      *)
(***************************************************************************)
start_module(d, module_name) ==
    IF module_name \notin DOMAIN d.reg
    THEN {Fail(set_last_error(d, <<Err("Not installed", module_name)>>))}
    ELSE IF d.reg[module_name].state \notin {"INITIALIZED", "STOPPED"}
    THEN {Fail(set_last_error(d, <<Err("Not enabled", "")>>))}
    ELSE {IF ~s.ok
          THEN Fail(set_last_error(
                        update_module_state(s.d, module_name, "INITIALIZED",
                                            "Failed to start module"),
                        <<Err("Start failed", "")>>))
          ELSE Ok(update_module_state(s.d, module_name, "RUNNING", ""))
          : s \in loader_start_module(d, module_name)}

\* stop_module that refuses while a dependent is RUNNING.
stop_module_blocked(d, module_name) ==
    IF module_name \notin DOMAIN d.reg
    THEN {Fail(set_last_error(d, <<Err("Not installed", module_name)>>))}
    ELSE IF d.reg[module_name].state # "RUNNING"
    THEN {Fail(set_last_error(d, <<Err("Not running", "")>>))}
    ELSE IF \E x \in get_dependents(d.rev, module_name) :
                x \in DOMAIN d.reg /\ d.reg[x].state = "RUNNING"
    THEN {Fail(set_last_error(d, <<Err("Dependents running", "")>>))}
    ELSE {IF ~s.ok
          THEN Fail(set_last_error(
                        update_module_state(s.d, module_name, "ERROR",
                                            "Failed to stop module"),
                        <<Err("Stop failed", "")>>))
          ELSE Ok(update_module_state(s.d, module_name, "STOPPED", ""))
          : s \in loader_stop_module(d, module_name)}

stop_module(d, module_name) ==
    IF module_name \notin DOMAIN d.reg
    THEN {Fail(set_last_error(d, <<Err("Not installed", module_name)>>))}
    ELSE IF d.reg[module_name].state # "RUNNING"
    THEN {Fail(set_last_error(d, <<Err("Not running", "")>>))}
    ELSE {IF ~s.ok
          THEN Fail(set_last_error(
                        update_module_state(s.d, module_name, "ERROR",
                                            "Failed to stop module"),
                        <<Err("Stop failed", "")>>))
          ELSE Ok(update_module_state(s.d, module_name, "STOPPED", ""))
          : s \in loader_stop_module(d, module_name)}

\* disable_module that forgets the registry update after a successful unload.
disable_module_keeps_state(d, module_name) ==
    IF module_name \notin DOMAIN d.reg
    THEN {Fail(set_last_error(d, <<Err("Not installed", module_name)>>))}
    ELSE IF d.reg[module_name].state = "INSTALLED" THEN {Fail(d)}
    ELSE UNION {
        IF ~s.ok THEN {Fail(s.d)}
        ELSE {IF ~u.ok
              THEN Fail(set_last_error(
                        update_module_state(u.d, module_name, "ERROR",
                                            "Failed to unload module"),
                        <<Err("Unload failed", "")>>))
              ELSE Ok(u.d)
              : u \in loader_unload_module(s.d, module_name)}
        : s \in (IF d.reg[module_name].state = "RUNNING"
                 THEN stop_module(d, module_name) ELSE {Ok(d)})}

disable_module(d, module_name) ==
    IF module_name \notin DOMAIN d.reg
    THEN {Fail(set_last_error(d, <<Err("Not installed", module_name)>>))}
    ELSE IF d.reg[module_name].state = "INSTALLED" THEN {Fail(d)}
    ELSE UNION {
        IF ~s.ok THEN {Fail(s.d)}
        ELSE IF s.d.reg[module_name].state
                  \in {"LOADED", "INITIALIZED", "RUNNING", "STOPPED"}
        THEN {IF ~u.ok
              THEN Fail(set_last_error(
                        update_module_state(u.d, module_name, "ERROR",
                                            "Failed to unload module"),
                        <<Err("Unload failed", "")>>))
              ELSE Ok(update_module_state(u.d, module_name, "INSTALLED", ""))
              : u \in loader_unload_module(s.d, module_name)}
        ELSE {Ok(update_module_state(s.d, module_name, "INSTALLED", ""))}
        : s \in (IF d.reg[module_name].state = "RUNNING"
                 THEN stop_module(d, module_name) ELSE {Ok(d)})}

(***************************************************************************)
(* HelixDaemon: enable, with the dependency propagation it recurses into.  *)
(***************************************************************************)
\* The names of a set, as the items of an error message.
Items(msg, S) == LET p == CHOOSE q \in Perms(S) : TRUE
                 IN  [i \in 1..Len(p) |-> Err(msg, p[i])]

RECURSIVE enable_module(_, _), resolve_and_load_dependencies(_, _),
          load_dependencies(_, _, _, _)

enable_module(d, module_name) ==
    IF module_name \notin DOMAIN d.reg
    THEN {Fail(set_last_error(d, <<Err("Not installed", module_name)>>))}
    ELSE IF d.reg[module_name].state # "INSTALLED"
    THEN {Fail(set_last_error(d, <<Err("Already enabled", "")>>))}
    ELSE UNION {
        IF ~r.ok
        THEN {Fail(IF r.d.le = ""
                   THEN set_last_error(r.d, <<Err("Dependency resolution failed", "")>>)
                   ELSE r.d)}
        ELSE UNION {
            IF ~l.ok
            THEN {Fail(set_last_error(
                        update_module_state(l.d, module_name, "INSTALLED",
                                            "Failed to load module binary"),
                        <<Err("Load failed", module_name)>>))}
            ELSE UNION {
                IF ~i.ok
                THEN {Fail(set_last_error(
                            update_module_state(u.d, module_name, "INSTALLED",
                                                "Failed to initialize module"),
                            <<Err("Initialize failed", "")>>))
                      : u \in loader_unload_module(i.d, module_name)}
                ELSE {Ok(update_module_state(i.d, module_name, "INITIALIZED", ""))}
                : i \in loader_initialize_module(
                            update_module_state(l.d, module_name, "LOADED", ""),
                            module_name)}
            : l \in loader_load_module(r.d, module_name)}
        : r \in resolve_and_load_dependencies(d, module_name)}

resolve_and_load_dependencies(d, module_name) ==
    UNION {
        IF ~result.success
        THEN {Fail(set_last_error(d,
                <<Err("Dependency resolution failed for", module_name)>>
                \o Items("missing", result.missing_deps)
                \o Items("circular", result.circular_deps)))}
        ELSE load_dependencies(d, module_name, result.load_order, 1)
        : result \in resolve_dependencies(d.mods, d.fwd, d.rev, <<module_name>>)}

\* The loop over result.load_order, from position i on.
load_dependencies(d, module_name, load_order, i) ==
    IF i > Len(load_order) THEN {Ok(d)}
    ELSE
      LET dep_name == load_order[i]
      IN  IF dep_name = module_name
          THEN load_dependencies(d, module_name, load_order, i + 1)
          ELSE UNION {
              IF ~e.ok
              THEN {Fail(set_last_error(e.d,
                        <<Err("Failed to enable dependency", dep_name)>>))}
              ELSE IF /\ dep_name \in DOMAIN e.d.reg
                      /\ e.d.reg[dep_name].state \in {"INITIALIZED", "STOPPED"}
              THEN UNION {
                      IF ~s.ok
                      THEN {Fail(set_last_error(s.d,
                                <<Err("Failed to start dependency", dep_name)>>))}
                      ELSE load_dependencies(s.d, module_name, load_order, i + 1)
                      : s \in start_module(e.d, dep_name)}
              ELSE load_dependencies(e.d, module_name, load_order, i + 1)
              : e \in (IF /\ dep_name \in DOMAIN d.reg
                          /\ d.reg[dep_name].state = "INSTALLED"
                       THEN enable_module(d, dep_name)
                       ELSE {Ok(d)})}

(***************************************************************************)
(* HelixDaemon: install, uninstall.                                        *)
(***************************************************************************)
\* DependencyResolver::add_module / remove_module on d.
add_module(d, manifest) ==
    IF manifest.name \in DOMAIN d.mods THEN d
    ELSE LET mods == [m \in DOMAIN d.mods \cup {manifest.name} |->
                        IF m = manifest.name THEN manifest ELSE d.mods[m]]
         IN  [d EXCEPT !.mods = mods, !.fwd = build_forward(mods),
                       !.rev = build_reverse(mods)]

remove_module(d, module_name) ==
    IF module_name \notin DOMAIN d.mods THEN d
    ELSE LET mods == [m \in DOMAIN d.mods \ {module_name} |-> d.mods[m]]
         IN  [d EXCEPT !.mods = mods, !.fwd = build_forward(mods),
                       !.rev = build_reverse(mods)]

\* The registry entry install and the directory scan create.
NewEntry(manifest) ==
    [manifest |-> manifest, state |-> "INSTALLED", error_message |-> ""]

\* register that leaves the resolver out.
register_registry_only(d, manifest) ==
    [d EXCEPT !.reg = [m \in DOMAIN d.reg \cup {manifest.name} |->
                    IF m = manifest.name THEN NewEntry(manifest) ELSE d.reg[m]]]

register(d, manifest) ==
    add_module([d EXCEPT !.reg = [m \in DOMAIN d.reg \cup {manifest.name} |->
                    IF m = manifest.name THEN NewEntry(manifest) ELSE d.reg[m]]],
               manifest)

\* install_module of a .helx archive holding manifest; valid is false for a
\* file that is no archive, does not extract or holds no valid manifest.
extract_package(d, manifest) ==
    [d EXCEPT !.disk = [m \in DOMAIN d.disk \cup {manifest.name} |->
                            IF m = manifest.name THEN manifest ELSE d.disk[m]]]

\* The versions of the running host, from helix/version.h.
HELIX_CORE_VERSION == V(2, 0, 0)
HELIX_API_VERSION == V(1, 1, 0)

\* The test install_module makes for one minimum: the requirement is the
\* string ">=" followed by the minimum.
host_satisfies(host_version, minimum) ==
    ~minimum.present
    \/ version_satisfies(host_version, Req(">=", minimum.version))

\* install_module without the two host-compatibility tests.
install_module_unchecked(d, manifest, valid) ==
    IF ~valid THEN {Fail(set_last_error(d, <<Err("Install rejected", "")>>))}
    ELSE {Ok(register(extract_package(d, manifest), manifest))}

install_module(d, manifest, valid) ==
    IF ~valid THEN {Fail(set_last_error(d, <<Err("Install rejected", "")>>))}
    ELSE IF ~host_satisfies(HELIX_CORE_VERSION, manifest.minimum_core_version)
    THEN {Fail(set_last_error(d, <<Err("Core version does not satisfy", "")>>))}
    ELSE IF ~host_satisfies(HELIX_API_VERSION, manifest.minimum_api_version)
    THEN {Fail(set_last_error(d, <<Err("API version does not satisfy", "")>>))}
    ELSE {Ok(register(extract_package(d, manifest), manifest))}

\* remove_module_files: the install directory is removed, or the removal
\* fails and leaves it.
remove_module_files(d, module_name) ==
    IF module_name \notin DOMAIN d.reg THEN {Fail(d)}
    ELSE {Fail(d),
          Ok([d EXCEPT !.disk = [m \in DOMAIN d.disk \ {module_name} |-> d.disk[m]]])}

\* uninstall_module without the refusal while dependents are registered.
uninstall_module_unchecked(d, module_name) ==
    IF module_name \notin DOMAIN d.reg
    THEN {Fail(set_last_error(d, <<Err("Not installed", module_name)>>))}
    ELSE UNION {
          IF ~s.ok
          THEN {Fail(set_last_error(s.d, <<Err("Disable before uninstall failed", "")>>))}
          ELSE {IF ~f.ok
                THEN Fail(set_last_error(f.d, <<Err("Filesystem remove failed", "")>>))
                ELSE Ok([remove_module(f.d, module_name) EXCEPT
                          !.reg = [m \in DOMAIN f.d.reg \ {module_name} |-> f.d.reg[m]]])
                : f \in remove_module_files(s.d, module_name)}
          : s \in (IF d.reg[module_name].state # "INSTALLED"
                   THEN disable_module(d, module_name) ELSE {Ok(d)})}

uninstall_module(d, module_name) ==
    IF module_name \notin DOMAIN d.reg
    THEN {Fail(set_last_error(d, <<Err("Not installed", module_name)>>))}
    ELSE IF get_dependents(d.rev, module_name) # {}
    THEN {Fail(set_last_error(d, <<Err("Dependents present", "")>>))}
    ELSE UNION {
          IF ~s.ok
          THEN {Fail(set_last_error(s.d, <<Err("Disable before uninstall failed", "")>>))}
          ELSE {IF ~f.ok
                THEN Fail(set_last_error(f.d, <<Err("Filesystem remove failed", "")>>))
                ELSE Ok([remove_module(f.d, module_name) EXCEPT
                          !.reg = [m \in DOMAIN f.d.reg \ {module_name} |-> f.d.reg[m]]])
                : f \in remove_module_files(s.d, module_name)}
          : s \in (IF d.reg[module_name].state # "INSTALLED"
                   THEN disable_module(d, module_name) ELSE {Ok(d)})}

(***************************************************************************)
(* State persistence and restore.                                          *)
(***************************************************************************)
state_to_string(state) ==
    CASE state = "UNKNOWN" -> "Unknown"
      [] state = "INSTALLED" -> "Installed"
      [] state = "LOADED" -> "Loaded"
      [] state = "INITIALIZED" -> "Initialized"
      [] state = "RUNNING" -> "Running"
      [] state = "STOPPED" -> "Stopped"
      [] state = "ERROR" -> "Error"
      [] OTHER -> "Invalid"

state_from_string(state_str) ==
    CASE state_str = "Unknown" -> "UNKNOWN"
      [] state_str = "Installed" -> "INSTALLED"
      [] state_str = "Loaded" -> "LOADED"
      [] state_str = "Initialized" -> "INITIALIZED"
      [] state_str = "Running" -> "RUNNING"
      [] state_str = "Stopped" -> "STOPPED"
      [] state_str = "Error" -> "ERROR"
      [] OTHER -> "UNKNOWN"

NoStateFile == [present |-> FALSE, entries |-> <<>>]

\* save_module_states: the file is rewritten with one "name": {"state": ...}
\* entry per registry entry.
save_module_states(d) ==
    [d EXCEPT !.file =
        [present |-> TRUE,
         entries |-> [m \in DOMAIN d.reg |-> state_to_string(d.reg[m].state)]]]

\* load_saved_module_states: the name -> ModuleState map read back.
load_saved_module_states(file) ==
    IF ~file.present THEN <<>>
    ELSE [m \in DOMAIN file.entries |-> state_from_string(file.entries[m])]

\* restore_saved_states or shutdown is about to call the operation
\* (enable_module, start_module, stop_module, disable_module) on
\* module_name: the entry keeps the state the module has.
Attempted(d, operation, module_name) ==
    [d EXCEPT !.log = Append(@, [call |-> operation, name |-> module_name,
                                 ok |-> TRUE,
                                 deps_down |-> DepsDown(d, module_name),
                                 state |-> d.reg[module_name].state])]

\* The two loops of restore_saved_states.  A failing enable or start is
\* reported and the loop goes on.
RECURSIVE restore_enable_loop(_, _, _)
restore_enable_loop(d, order, i) ==
    IF i > Len(order) THEN {d}
    ELSE IF order[i] \in DOMAIN d.reg /\ d.reg[order[i]].state = "INSTALLED"
    THEN UNION {restore_enable_loop(e.d, order, i + 1)
                : e \in enable_module(Attempted(d, "enable_module", order[i]),
                                      order[i])}
    ELSE restore_enable_loop(d, order, i + 1)

\* The start loop without the test of the current state.
RECURSIVE restore_start_loop_unguarded(_, _, _)
restore_start_loop_unguarded(d, order, i) ==
    IF i > Len(order) THEN {d}
    ELSE IF order[i] \in DOMAIN d.reg
    THEN UNION {restore_start_loop_unguarded(s.d, order, i + 1)
                : s \in start_module(Attempted(d, "start_module", order[i]),
                                     order[i])}
    ELSE restore_start_loop_unguarded(d, order, i + 1)

RECURSIVE restore_start_loop(_, _, _)
restore_start_loop(d, order, i) ==
    IF i > Len(order) THEN {d}
    ELSE IF /\ order[i] \in DOMAIN d.reg
            /\ d.reg[order[i]].state \in {"INITIALIZED", "STOPPED"}
    THEN UNION {restore_start_loop(s.d, order, i + 1)
                : s \in start_module(Attempted(d, "start_module", order[i]),
                                     order[i])}
    ELSE restore_start_loop(d, order, i + 1)

\* Resolve the targets and walk the order (the targets themselves when the
\* resolver returns no order).
restore_orders(d, targets) ==
    UNION {{IF res.load_order = <<>> THEN vec ELSE res.load_order
            : res \in resolve_dependencies(d.mods, d.fwd, d.rev, vec)}
           : vec \in Perms(targets)}

restore_saved_states(d, saved_states) ==
    IF DOMAIN saved_states = {} THEN {d}
    ELSE
      LET to_enable == {m \in DOMAIN saved_states \cap DOMAIN d.reg :
                          saved_states[m] \in {"INITIALIZED", "RUNNING", "STOPPED"}}
          to_start == {m \in DOMAIN saved_states \cap DOMAIN d.reg :
                          saved_states[m] = "RUNNING"}
          enabled == IF to_enable = {} THEN {d}
                     ELSE UNION {restore_enable_loop(d, order, 1)
                                 : order \in restore_orders(d, to_enable)}
      IN  UNION {IF to_start = {} THEN {d1}
                 ELSE UNION {restore_start_loop(d1, order2, 1)
                             : order2 \in restore_orders(d1, to_start)}
                 : d1 \in enabled}

\* scan_modules_directory: every installed directory is registered INSTALLED.
RECURSIVE scan_modules_directory(_, _, _)
scan_modules_directory(d, dir, todo) ==
    IF todo = {} THEN d
    ELSE LET m == CHOOSE x \in todo : TRUE
         IN  scan_modules_directory(register(d, dir[m]), dir, todo \ {m})

\* refresh_modules: refused before initialize, else the directory scan and
\* its result.  No command of the host calls it.
refresh_modules(d, is_initialized) ==
    IF ~is_initialized THEN {Fail(d)}
    ELSE {Fail(d), Ok(scan_modules_directory(d, d.disk, DOMAIN d.disk))}

\* The return of initialize or shutdown: the result, initialized_ and the
\* fields.
Returned(ok, is_initialized, d) ==
    [ok |-> ok, initialized |-> is_initialized, d |-> d]

\* initialize that writes the state file once the restore is done.
initialize_saves(d, is_initialized) ==
    IF is_initialized THEN {Returned(FALSE, TRUE, d)}
    ELSE {Returned(FALSE, FALSE, d)}
         \cup {Returned(TRUE, TRUE, save_module_states(r))
               : r \in restore_saved_states(
                          scan_modules_directory(d, d.disk, DOMAIN d.disk),
                          load_saved_module_states(d.file))}

\* initialize: refused on an initialized daemon; the scan fails when the
\* directory cannot be iterated; after a scan that succeeded the state file
\* is read and restored from, and the result is success.
initialize(d, is_initialized) ==
    IF is_initialized THEN {Returned(FALSE, TRUE, d)}
    ELSE {Returned(FALSE, FALSE, d)}
         \cup {Returned(TRUE, TRUE, r)
               : r \in restore_saved_states(
                          scan_modules_directory(d, d.disk, DOMAIN d.disk),
                          load_saved_module_states(d.file))}

\* The two loops of shutdown over module_registry_, in its iteration order.
RECURSIVE shutdown_stop_loop(_, _, _), shutdown_disable_loop(_, _, _)
shutdown_stop_loop(d, order, i) ==
    IF i > Len(order) THEN {d}
    ELSE IF d.reg[order[i]].state = "RUNNING"
    THEN UNION {shutdown_stop_loop(s.d, order, i + 1)
                : s \in stop_module(Attempted(d, "stop_module", order[i]),
                                    order[i])}
    ELSE shutdown_stop_loop(d, order, i + 1)

shutdown_disable_loop(d, order, i) ==
    IF i > Len(order) THEN {d}
    ELSE IF d.reg[order[i]].state \in {"INITIALIZED", "STOPPED"}
    THEN UNION {shutdown_disable_loop(s.d, order, i + 1)
                : s \in disable_module(Attempted(d, "disable_module", order[i]),
                                       order[i])}
    ELSE shutdown_disable_loop(d, order, i + 1)

\* shutdown without the test of initialized_.
shutdown_unguarded(d, is_initialized) ==
    UNION {
      {Returned(TRUE, FALSE,
                [d2 EXCEPT !.reg = <<>>, !.mods = <<>>, !.fwd = <<>>,
                           !.rev = <<>>])
       : d2 \in UNION {shutdown_disable_loop(d1, order, 1)
                       : d1 \in shutdown_stop_loop(save_module_states(d),
                                                   order, 1)}}
      : order \in Perms(DOMAIN d.reg)}

\* shutdown that saves the states after the two loops.
shutdown_saves_last(d, is_initialized) ==
    IF ~is_initialized THEN {Returned(TRUE, FALSE, d)}
    ELSE UNION {
           {Returned(TRUE, FALSE,
                     [save_module_states(d2) EXCEPT
                        !.reg = <<>>, !.mods = <<>>, !.fwd = <<>>, !.rev = <<>>])
            : d2 \in UNION {shutdown_disable_loop(d1, order, 1)
                            : d1 \in shutdown_stop_loop(d, order, 1)}}
           : order \in Perms(DOMAIN d.reg)}

\* shutdown: nothing on a daemon that is not initialized; otherwise save the
\* states, stop, disable, clear the registry and the resolver.
shutdown(d, is_initialized) ==
    IF ~is_initialized THEN {Returned(TRUE, FALSE, d)}
    ELSE UNION {
           {Returned(TRUE, FALSE,
                     [d2 EXCEPT !.reg = <<>>, !.mods = <<>>, !.fwd = <<>>,
                                !.rev = <<>>])
            : d2 \in UNION {shutdown_disable_loop(d1, order, 1)
                            : d1 \in shutdown_stop_loop(save_module_states(d),
                                                        order, 1)}}
           : order \in Perms(DOMAIN d.reg)}

(***************************************************************************)
(* The state machine.                                                      *)
(***************************************************************************)
\* The directories a modules directory can hold: at most one package per name.
Directories ==
    {dir \in UNION {[S -> Packages] : S \in SUBSET Names} :
        \A m \in DOMAIN dir : dir[m].name = m}

\* A HelixDaemon has been constructed over some modules directory that holds
\* no state file; main() has not called initialize yet.
Init ==
    /\ pc = "boot"
    /\ initialized = FALSE
    /\ module_registry = <<>>
    /\ modules = <<>>
    /\ dependency_graph = <<>>
    /\ reverse_graph = <<>>
    /\ loaded_modules = <<>>
    /\ last_error = ""
    /\ disk \in Directories
    /\ state_file = NoStateFile

\* The daemon fields as the record the operations work on.
D == [reg |-> module_registry, mods |-> modules, fwd |-> dependency_graph,
      rev |-> reverse_graph, ld |-> loaded_modules, le |-> last_error,
      disk |-> disk, file |-> state_file, log |-> <<>>]

\* The daemon fields after an operation that ended in d.
Becomes(d) ==
    /\ module_registry' = d.reg
    /\ modules' = d.mods
    /\ dependency_graph' = d.fwd
    /\ reverse_graph' = d.rev
    /\ loaded_modules' = d.ld
    /\ last_error' = d.le
    /\ disk' = d.disk
    /\ state_file' = d.file

AllNames == Names \cup {Phantom}

\* main() calls initialize once.
Initialize ==
    /\ pc = "boot"
    /\ \E r \in initialize(D, initialized) :
            /\ Becomes(r.d)
            /\ initialized' = r.initialized
            /\ pc' = IF r.ok THEN "serving" ELSE "boot"

Install ==
    /\ pc = "serving"
    /\ initialized
    /\ \E manifest \in Packages, valid \in BOOLEAN :
       \E r \in install_module(D, manifest, valid) :
            Becomes(r.d)
    /\ UNCHANGED <<pc, initialized>>

Uninstall ==
    /\ pc = "serving"
    /\ initialized
    /\ \E module_name \in AllNames :
       \E r \in uninstall_module(D, module_name) :
            Becomes(r.d)
    /\ UNCHANGED <<pc, initialized>>

Enable ==
    /\ pc = "serving"
    /\ initialized
    /\ \E module_name \in AllNames :
       \E r \in enable_module(D, module_name) :
            /\ Becomes(r.d)
    /\ UNCHANGED <<pc, initialized>>

Disable ==
    /\ pc = "serving"
    /\ initialized
    /\ \E module_name \in AllNames :
       \E r \in disable_module(D, module_name) :
            /\ Becomes(r.d)
    /\ UNCHANGED <<pc, initialized>>

Start ==
    /\ pc = "serving"
    /\ initialized
    /\ \E module_name \in AllNames :
       \E r \in start_module(D, module_name) :
            /\ Becomes(r.d)
    /\ UNCHANGED <<pc, initialized>>

Stop ==
    /\ pc = "serving"
    /\ initialized
    /\ \E module_name \in AllNames :
       \E r \in stop_module(D, module_name) :
            /\ Becomes(r.d)
    /\ UNCHANGED <<pc, initialized>>

Next ==
    \/ Initialize
    \/ Install
    \/ Uninstall
    \/ Enable
    \/ Disable
    \/ Start
    \/ Stop

Spec == Init /\ [][Next]_vars

(***************************************************************************)
(* The life of the host over restarts.  main() serves commands until it    *)
(* is told to stop, calls shutdown and destroys the daemon; the signal     *)
(* handler does the same on SIGINT and SIGTERM, and can run after main()   *)
(* has called shutdown and before it has destroyed the daemon.  A process  *)
(* that ends on another signal ends without shutdown.  The next process    *)
(* starts over the same modules directory: the installed directories and   *)
(* the state file are what is left of the previous one.                    *)
(*   b -> a is the chain; a2 closes the cycle a -> b -> a; b2 needs the    *)
(*   phantom z.                                                            *)
(***************************************************************************)
la1 == Manifest("a", V(1, 0, 0), <<>>)
la2 == Manifest("a", V(2, 0, 0), <<Dep("b", NoReq, FALSE)>>)
lb1 == Manifest("b", V(1, 0, 0), <<Dep("a", NoReq, FALSE)>>)
lb2 == Manifest("b", V(1, 1, 0), <<Dep(Phantom, NoReq, FALSE)>>)
LifePackages == {la1, la2, lb1, lb2}
LifeNames == {"a", "b"}

LifeInit ==
    /\ pc = "boot"
    /\ initialized = FALSE
    /\ module_registry = <<>>
    /\ modules = <<>>
    /\ dependency_graph = <<>>
    /\ reverse_graph = <<>>
    /\ loaded_modules = <<>>
    /\ last_error = ""
    /\ disk = <<>>
    /\ state_file = NoStateFile

LifeInstall ==
    /\ pc = "serving"
    /\ initialized
    /\ \E manifest \in LifePackages, valid \in BOOLEAN :
       \E r \in install_module(D, manifest, valid) :
            Becomes(r.d)
    /\ UNCHANGED <<pc, initialized>>

\* shutdown(), from main() or from the signal handler.
Shutdown ==
    /\ pc \in {"serving", "stopped"}
    /\ \E r \in shutdown(D, initialized) :
            /\ Becomes(r.d)
            /\ initialized' = r.initialized
    /\ pc' = "stopped"

\* The fields of a newly constructed HelixDaemon in a process started over
\* the modules directory the process of d has left.
new_process(d) ==
    [reg |-> <<>>, mods |-> <<>>, fwd |-> <<>>, rev |-> <<>>, ld |-> <<>>,
     le |-> "", disk |-> d.disk, file |-> d.file, log |-> <<>>]

\* A process ended, and the next one has constructed its HelixDaemon.
NextProcess ==
    /\ pc' = "boot"
    /\ initialized' = FALSE
    /\ Becomes(new_process(D))

\* g_daemon.reset() after shutdown, and the end of the process.
Exit ==
    /\ pc = "stopped"
    /\ NextProcess

\* The process ends on a signal it has no handler for.
Kill ==
    /\ pc = "serving"
    /\ NextProcess

LifeNext ==
    \/ Initialize
    \/ LifeInstall
    \/ Uninstall
    \/ Enable
    \/ Disable
    \/ Start
    \/ Stop
    \/ Shutdown
    \/ Exit
    \/ Kill

LifeSpec == LifeInit /\ [][LifeNext]_vars

(***************************************************************************)
(* The host in service mode with its signal handler.  main() installs      *)
(* signal_handler for SIGINT and SIGTERM before it constructs the daemon   *)
(* and never blocks the signals: the handler runs on the one thread of     *)
(* the process at whatever point that thread has reached, calls shutdown,  *)
(* destroys the daemon and exits.  A control command is followed from its  *)
(* dispatch in main::handler ("entry") to its return; enable_module is     *)
(* also followed to the call of the module's init hook ("init").  Here pc  *)
(* is a record: at is the position, and op, name, package the command in   *)
(* flight.                                                                 *)
(***************************************************************************)
NoPackage == Manifest("", V(0, 0, 0), <<>>)

At(position) ==
    [at |-> position, op |-> "none", name |-> "", package |-> NoPackage]

\* The command lines main::handler dispatches to the daemon.
Commands ==
    {[op |-> "install", name |-> m.name, package |-> m] : m \in LifePackages}
    \cup {[op |-> o, name |-> n, package |-> NoPackage]
          : o \in {"enable", "start", "stop", "disable", "uninstall"},
            n \in LifeNames}

\* The outcomes of the daemon operation a command calls.
command_outcomes(d, c) ==
    CASE c.op = "install" -> install_module(d, c.package, TRUE)
      [] c.op = "enable" -> enable_module(d, c.name)
      [] c.op = "start" -> start_module(d, c.name)
      [] c.op = "stop" -> stop_module(d, c.name)
      [] c.op = "disable" -> disable_module(d, c.name)
      [] c.op = "uninstall" -> uninstall_module(d, c.name)

\* enable_module up to the call of the init hook of module_name: the
\* dependencies are up, the library is loaded, the registry says LOADED.
enable_module_to_init(d, module_name) ==
    IF module_name \notin DOMAIN d.reg \/ d.reg[module_name].state # "INSTALLED"
    THEN {}
    ELSE UNION {{update_module_state(l.d, module_name, "LOADED", "")
                 : l \in {x \in loader_load_module(r.d, module_name) : x.ok}}
                : r \in {x \in resolve_and_load_dependencies(d, module_name)
                          : x.ok}}

\* enable_module from the return of the init hook on.
enable_module_from_init(d, module_name) ==
    UNION {
        IF ~i.ok
        THEN {Fail(set_last_error(
                    update_module_state(u.d, module_name, "INSTALLED",
                                        "Failed to initialize module"),
                    <<Err("Initialize failed", "")>>))
              : u \in loader_unload_module(i.d, module_name)}
        ELSE {Ok(update_module_state(i.d, module_name, "INITIALIZED", ""))}
        : i \in loader_initialize_module(d, module_name)}

SignalDirectories ==
    {dir \in UNION {[S -> LifePackages] : S \in SUBSET LifeNames} :
        \A m \in DOMAIN dir : dir[m].name = m}

SignalInit ==
    /\ pc = At("boot")
    /\ initialized = FALSE
    /\ module_registry = <<>>
    /\ modules = <<>>
    /\ dependency_graph = <<>>
    /\ reverse_graph = <<>>
    /\ loaded_modules = <<>>
    /\ last_error = ""
    /\ disk \in SignalDirectories
    /\ state_file = NoStateFile

\* main() calls initialize; it returns 1 when initialize fails.
SignalInitialize ==
    /\ pc.at = "boot"
    /\ \E r \in initialize(D, initialized) :
            /\ Becomes(r.d)
            /\ initialized' = r.initialized
            /\ pc' = At(IF r.ok THEN "serving" ELSE "exited")

\* IpcServer::serve has read a command line and main::handler calls the
\* daemon operation.
Dispatch ==
    /\ pc.at = "serving"
    /\ \E c \in Commands :
            pc' = [at |-> "entry", op |-> c.op, name |-> c.name,
                   package |-> c.package]
    /\ UNCHANGED <<initialized, module_registry, modules, dependency_graph,
                   reverse_graph, loaded_modules, last_error, disk, state_file>>

\* enable_module reaches the init hook of its module.
EnterInit ==
    /\ pc.at = "entry"
    /\ pc.op = "enable"
    /\ \E d \in enable_module_to_init(D, pc.name) : Becomes(d)
    /\ pc' = [pc EXCEPT !.at = "init"]
    /\ UNCHANGED initialized

\* The daemon operation returns and the response is written.
Return ==
    /\ pc.at \in {"entry", "init"}
    /\ \E r \in (IF pc.at = "init"
                  THEN enable_module_from_init(D, pc.name)
                  ELSE command_outcomes(D, pc)) :
            Becomes(r.d)
    /\ pc' = At("serving")
    /\ UNCHANGED initialized

\* SIGINT or SIGTERM is delivered: signal_handler calls shutdown, destroys
\* the daemon and exits; what the thread was doing is not resumed.
Signal ==
    /\ pc.at \in {"serving", "entry", "init"}
    /\ \E s \in shutdown(D, initialized) :
            /\ Becomes(s.d)
            /\ initialized' = s.initialized
    /\ pc' = [pc EXCEPT !.at = "signalled"]

SignalNext ==
    \/ SignalInitialize
    \/ Dispatch
    \/ EnterInit
    \/ Return
    \/ Signal

SignalSpec == SignalInit /\ [][SignalNext]_vars

(***************************************************************************)
(* Installing packages that state host minimums.  The host is core 2.0.0   *)
(* and API 1.1.0.                                                          *)
(*   a1 states nothing; a2 states minimums the host meets; a3 needs a      *)
(*   newer core and a4 a newer API; a5 needs the pre-release 3.0.0-rc1 of  *)
(*   the core; b1 needs a and exactly the host's core; b2 needs the        *)
(*   pre-release 2.0.0-beta of the API.                                    *)
(***************************************************************************)
Suffixed(version, suffix) == [version EXCEPT !.suffix = suffix]

ha1 == Manifest("a", V(1, 0, 0), <<>>)
ha2 == ManifestFor("a", V(1, 1, 0), <<>>, Minimum(V(1, 9, 0)), Minimum(V(1, 0, 0)))
ha3 == ManifestFor("a", V(1, 2, 0), <<>>, Minimum(V(3, 0, 0)), NoMinimum)
ha4 == ManifestFor("a", V(1, 3, 0), <<>>, NoMinimum, Minimum(V(1, 2, 0)))
ha5 == ManifestFor("a", V(1, 4, 0), <<>>,
                   Minimum(Suffixed(V(3, 0, 0), "-rc1")), NoMinimum)
hb1 == ManifestFor("b", V(1, 0, 0), <<Dep("a", NoReq, FALSE)>>,
                   Minimum(V(2, 0, 0)), NoMinimum)
hb2 == ManifestFor("b", V(1, 1, 0), <<>>,
                   NoMinimum, Minimum(Suffixed(V(2, 0, 0), "-beta")))
HostPackages == {ha1, ha2, ha3, ha4, ha5, hb1, hb2}

HostInstall ==
    /\ pc = "serving"
    /\ initialized
    /\ \E manifest \in HostPackages, valid \in BOOLEAN :
       \E r \in install_module(D, manifest, valid) :
            Becomes(r.d)
    /\ UNCHANGED <<pc, initialized>>

HostNext ==
    \/ Initialize
    \/ HostInstall
    \/ Uninstall
    \/ Enable
    \/ Disable
    \/ Start
    \/ Stop

HostSpec == LifeInit /\ [][HostNext]_vars

(***************************************************************************)
(* The static version helpers of DependencyResolver on their own.  A call  *)
(* takes an available version and a requirement: an operator and a         *)
(* version.  Versions are the strings ManifestParser::is_valid_version     *)
(* accepts, X.Y.Z with or without a suffix that starts with - or +.  Here  *)
(* pc is a record: at is "call" before a helper has run, available_version *)
(* and required_version are the arguments, and cmp and satisfied hold what *)
(* compare_versions and version_satisfies returned.                        *)
(***************************************************************************)
MaxNumber == 2
MaxSuffixedNumber == 1
Suffixes == {"-rc1", "+b7"}
PlainVersions ==
    {V(x, y, z) : x \in 0..MaxNumber, y \in 0..MaxNumber, z \in 0..MaxNumber}
SuffixedVersions ==
    {Suffixed(V(x, y, z), suffix) :
        x \in 0..MaxSuffixedNumber, y \in 0..MaxSuffixedNumber,
        z \in 0..MaxSuffixedNumber, suffix \in Suffixes}
Versions == PlainVersions \cup SuffixedVersions

\* The operators of a requirement: the six of parse_version_requirement, none
\* (""), and "^", which the requirement pattern does not accept.
Operators == {"", "==", ">=", ">", "<=", "<", "~", "^"}
Requirements == {Req(op, version) : op \in Operators, version \in Versions}
                    \cup {NoReq}

NoResult == "none"

VersionCall(available_version, required_version) ==
    [at |-> "call", available_version |-> available_version,
     required_version |-> required_version,
     cmp |-> NoResult, satisfied |-> NoResult]

VersionInit ==
    /\ pc \in {VersionCall(available_version, required_version) :
                    available_version \in Versions,
                    required_version \in Requirements}
    /\ initialized = FALSE
    /\ module_registry = <<>>
    /\ modules = <<>>
    /\ dependency_graph = <<>>
    /\ reverse_graph = <<>>
    /\ loaded_modules = <<>>
    /\ last_error = ""
    /\ disk = <<>>
    /\ state_file = NoStateFile

\* compare_versions(available_version, version of the requirement).
CompareVersions ==
    /\ pc.at = "call"
    /\ pc' = [pc EXCEPT !.at = "compared",
                        !.cmp = compare_versions(pc.available_version,
                                                 pc.required_version.version)]
    /\ UNCHANGED <<initialized, module_registry, modules, dependency_graph,
                   reverse_graph, loaded_modules, last_error, disk, state_file>>

\* version_satisfies(available_version, required_version).
VersionSatisfies ==
    /\ pc.at = "call"
    /\ pc' = [pc EXCEPT !.at = "satisfied",
                        !.satisfied = version_satisfies(pc.available_version,
                                                        pc.required_version)]
    /\ UNCHANGED <<initialized, module_registry, modules, dependency_graph,
                   reverse_graph, loaded_modules, last_error, disk, state_file>>

VersionNext ==
    \/ CompareVersions
    \/ VersionSatisfies

VersionSpec == VersionInit /\ [][VersionNext]_vars

(***************************************************************************)
(* The resolver on its own: a DependencyResolver object driven through     *)
(* add_module, remove_module and clear, over a catalogue of manifests with *)
(* chains, a diamond, optional edges, cycles and a node that only leads    *)
(* into a cycle.                                                           *)
(*   d -> c -> b -> a is the chain, d also needs a (diamond).              *)
(*   a2 closes the cycle a -> c -> b -> a; d then leads into it.           *)
(*   b2 needs a only optionally; b3 optionally needs d (cycle d -> c -> b  *)
(*   -> d); c2 needs the phantom z; c3 needs a only, so that b and c are   *)
(*   ready together; d2 depends on itself.                                 *)
(***************************************************************************)
ResolverNames == {"a", "b", "c", "d"}

ra1 == Manifest("a", V(1, 0, 0), <<>>)
ra2 == Manifest("a", V(2, 0, 0), <<Dep("c", NoReq, FALSE)>>)
rb1 == Manifest("b", V(1, 0, 0), <<Dep("a", NoReq, FALSE)>>)
rb2 == Manifest("b", V(1, 1, 0), <<Dep("a", NoReq, TRUE)>>)
rb3 == Manifest("b", V(1, 2, 0), <<Dep("a", NoReq, FALSE), Dep("d", NoReq, TRUE)>>)
rc1 == Manifest("c", V(1, 0, 0), <<Dep("b", NoReq, FALSE)>>)
rc2 == Manifest("c", V(1, 1, 0), <<Dep("b", NoReq, FALSE), Dep(Phantom, NoReq, FALSE)>>)
rc3 == Manifest("c", V(2, 0, 0), <<Dep("a", NoReq, FALSE)>>)
rd1 == Manifest("d", V(1, 0, 0), <<Dep("c", NoReq, FALSE), Dep("a", NoReq, FALSE)>>)
rd2 == Manifest("d", V(2, 0, 0), <<Dep("d", NoReq, FALSE)>>)
ResolverPackages == {ra1, ra2, rb1, rb2, rb3, rc1, rc2, rc3, rd1, rd2}

\* DependencyResolver::clear on d.
clear(d) == [d EXCEPT !.mods = <<>>, !.fwd = <<>>, !.rev = <<>>]

\* A DependencyResolver has been constructed; there is no daemon around it.
ResolverInit ==
    /\ pc = "resolver"
    /\ initialized = FALSE
    /\ module_registry = <<>>
    /\ modules = <<>>
    /\ dependency_graph = <<>>
    /\ reverse_graph = <<>>
    /\ loaded_modules = <<>>
    /\ last_error = ""
    /\ disk = <<>>
    /\ state_file = NoStateFile

AddModule ==
    /\ pc = "resolver"
    /\ \E manifest \in ResolverPackages : Becomes(add_module(D, manifest))
    /\ UNCHANGED <<pc, initialized>>

RemoveModule ==
    /\ pc = "resolver"
    /\ \E module_name \in ResolverNames \cup {Phantom} :
            Becomes(remove_module(D, module_name))
    /\ UNCHANGED <<pc, initialized>>

Clear ==
    /\ pc = "resolver"
    /\ Becomes(clear(D))
    /\ UNCHANGED <<pc, initialized>>

ResolverNext ==
    \/ AddModule
    \/ RemoveModule
    \/ Clear

ResolverSpec == ResolverInit /\ [][ResolverNext]_vars

(***************************************************************************)
(* Properties.  A property of an operation is stated over every outcome    *)
(* the operation can have from the current state: the action of that       *)
(* operation takes exactly these outcomes.  The dependencies of a module   *)
(* are those of the manifest the resolver holds for it, which is the one   *)
(* enable resolves with.                                                   *)
(***************************************************************************)
StateOf(reg, module_name) ==
    IF module_name \in DOMAIN reg THEN reg[module_name].state ELSE "UNKNOWN"

MandatoryEdges(mods, module_name) ==
    IF module_name \in DOMAIN mods THEN MandatoryDeps(mods[module_name]) ELSE {}

\* The names reachable from S over mandatory edges, S included.
RECURSIVE MandatoryClosure(_, _)
MandatoryClosure(mods, S) ==
    LET step == S \cup UNION {MandatoryEdges(mods, m) : m \in S}
    IN  IF step = S THEN S ELSE MandatoryClosure(mods, step)

\* The direct and transitive mandatory dependencies of a module.
TransitiveDeps(mods, module_name) ==
    MandatoryClosure(mods, MandatoryEdges(mods, module_name))

\* The entries of a log that are calls of one of the given kinds.
Calls(log, kinds) == {log[i] : i \in {j \in DOMAIN log : log[j].call \in kinds}}

\* The four operations of C1, each on one registered module n.
C1_EnableSound(n) ==
    \A r \in enable_module(D, n) :
        IF r.ok
        THEN StateOf(module_registry, n) = "INSTALLED"
             /\ StateOf(r.d.reg, n) = "INITIALIZED"
        ELSE StateOf(r.d.reg, n) = StateOf(module_registry, n)

C1_StartSound(n) ==
    \A r \in start_module(D, n) :
        IF r.ok
        THEN StateOf(module_registry, n) \in {"INITIALIZED", "STOPPED"}
             /\ StateOf(r.d.reg, n) = "RUNNING"
        ELSE StateOf(r.d.reg, n) = StateOf(module_registry, n)

C1_StopSound(n) ==
    \A r \in stop_module(D, n) :
        IF r.ok
        THEN StateOf(module_registry, n) = "RUNNING"
             /\ StateOf(r.d.reg, n) = "STOPPED"
        ELSE \/ StateOf(r.d.reg, n) = StateOf(module_registry, n)
             \/ /\ StateOf(r.d.reg, n) = "ERROR"
                /\ \E c \in Calls(r.d.log, {"stop"}) : c.name = n /\ ~c.ok

C1_DisableSound(n) ==
    \A r \in disable_module(D, n) :
        IF r.ok
        THEN StateOf(module_registry, n) # "INSTALLED"
             /\ StateOf(r.d.reg, n) = "INSTALLED"
        ELSE \/ StateOf(r.d.reg, n) = StateOf(module_registry, n)
             \/ /\ StateOf(r.d.reg, n) = "ERROR"
                /\ \E c \in Calls(r.d.log, {"stop", "dlclose"}) :
                        c.name = n /\ ~c.ok

(***************************************************************************)
(* C1: for every registered module and each of enable, disable, start and  *)
(* stop, the operation either succeeds and leaves the module in the        *)
(* documented next state, or fails and leaves its state as it was; the     *)
(* only exceptions are a failing stop hook and an unload failure during    *)
(* disable, which give Error.  A failed start leaves the previous state,   *)
(* Initialized or Stopped.                                                 *)
(***************************************************************************)
C1_StateMachineSound ==
    \A n \in DOMAIN module_registry :
        C1_EnableSound(n) /\ C1_StartSound(n) /\ C1_StopSound(n)
        /\ C1_DisableSound(n)

(***************************************************************************)
(* C2: whenever enable(M) returns success, every mandatory dependency of   *)
(* M, direct and transitive, is registered and in state Running at the     *)
(* moment enable returns.                                                  *)
(***************************************************************************)
C2_EnableEnsuresDepsRunning ==
    \A n \in DOMAIN module_registry :
        \A r \in enable_module(D, n) :
            r.ok => \A x \in TransitiveDeps(r.d.mods, n) :
                        StateOf(r.d.reg, x) = "RUNNING"

(***************************************************************************)
(* C3: between supervisor operations, if a module's state is Running then  *)
(* every mandatory dependency of that module is in state Running.          *)
(***************************************************************************)
C3_RunningImpliesDepsRunning ==
    \A n \in DOMAIN module_registry :
        module_registry[n].state = "RUNNING" =>
            \A x \in MandatoryEdges(modules, n) :
                StateOf(module_registry, x) = "RUNNING"

\* C3, as far as the supervisor keeps it: stop and disable of a dependency
\* are not blocked by its dependents, uninstall is.  If a module's state is
\* Running, every mandatory dependency the resolver records for it is
\* still registered, in the registry and in the resolver.
C3_RunningImpliesDepsRegistered ==
    \A n \in DOMAIN module_registry :
        module_registry[n].state = "RUNNING" =>
            \A x \in MandatoryEdges(modules, n) :
                x \in DOMAIN module_registry /\ x \in DOMAIN modules

\* A module is Running while one of its mandatory dependencies, still
\* registered, has been stopped.
C3_Witness ==
    \E n \in DOMAIN module_registry :
        /\ module_registry[n].state = "RUNNING"
        /\ \E x \in MandatoryEdges(modules, n) :
                /\ x \in DOMAIN module_registry
                /\ module_registry[x].state = "STOPPED"

(***************************************************************************)
(* C4: at every call of the init hook or the start hook of a module M,     *)
(* whether through enable(M), start(M) or the dependency propagation       *)
(* inside another enable, every mandatory dependency of M is Running.      *)
(***************************************************************************)
C4_HooksSeeDepsRunning ==
    \A n \in DOMAIN module_registry :
        \A r \in enable_module(D, n) \cup start_module(D, n) :
            \A c \in Calls(r.d.log, {"init", "start"}) : c.deps_down = {}

(***************************************************************************)
(* C5: between supervisor operations, for every registered module the      *)
(* loader's running flag for that name is true if and only if the registry *)
(* state is Running.                                                       *)
(***************************************************************************)
C5_RunningFlagIffRunning ==
    \A n \in DOMAIN module_registry :
        (n \in DOMAIN loaded_modules /\ loaded_modules[n].running)
            <=> module_registry[n].state = "RUNNING"

(***************************************************************************)
(* C6: between supervisor operations, if a registered module's state is    *)
(* Loaded, Initialized, Running or Stopped, the loader holds a record for  *)
(* that module name.                                                       *)
(***************************************************************************)
C6_EnabledImpliesLoaded ==
    \A n \in DOMAIN module_registry :
        module_registry[n].state \in {"LOADED", "INITIALIZED", "RUNNING", "STOPPED"}
            => n \in DOMAIN loaded_modules

\* Three modules are enabled at once, one Initialized, one Running and one
\* Stopped, each with its loader record.
C6_Witness ==
    \A s \in {"INITIALIZED", "RUNNING", "STOPPED"} :
        \E n \in DOMAIN module_registry :
            module_registry[n].state = s /\ n \in DOMAIN loaded_modules

(***************************************************************************)
(* C7: disable(name) on a module in any non-Installed state (Loaded,       *)
(* Initialized, Running, Stopped or Error) that returns success has        *)
(* unloaded the module: afterwards the state is Installed and the loader   *)
(* holds no record for name.                                               *)
(***************************************************************************)
C7_DisableUnloads ==
    \A n \in DOMAIN module_registry :
        module_registry[n].state # "INSTALLED" =>
            \A r \in disable_module(D, n) :
                r.ok => /\ StateOf(r.d.reg, n) = "INSTALLED"
                        /\ n \notin DOMAIN r.d.ld

\* Some module of the closure of S requires a name the resolver does not hold.
ClosureMissing(mods, S) ==
    \E m \in MandatoryClosure(mods, S) :
        \E x \in MandatoryEdges(mods, m) : x \notin DOMAIN mods

\* Some module of the closure of S is among its own transitive dependencies.
ClosureCyclic(mods, S) ==
    \E m \in MandatoryClosure(mods, S) : m \in TransitiveDeps(mods, m)

(***************************************************************************)
(* C8: if the dependency closure of M contains a missing mandatory         *)
(* dependency or a cycle, enable(M) fails before any action is taken: M    *)
(* remains Installed, no module's state changes, no module is loaded and   *)
(* no hook is invoked by that call.                                        *)
(***************************************************************************)
C8_BrokenClosureFailsFirst ==
    \A n \in DOMAIN module_registry :
        (/\ module_registry[n].state = "INSTALLED"
         /\ (ClosureMissing(modules, {n}) \/ ClosureCyclic(modules, {n}))) =>
            \A r \in enable_module(D, n) :
                /\ ~r.ok
                /\ r.d.reg = module_registry
                /\ r.d.ld = loaded_modules
                /\ r.d.log = <<>>

\* Some module of the closure of S has a mandatory dependency that is absent
\* or registered at a version its requirement rejects.
ClosureUnsatisfied(mods, S) ==
    \E m \in MandatoryClosure(mods, S) \cap DOMAIN mods :
        \E dep \in Range(mods[m].dependencies) :
            /\ ~dep.optional
            /\ \/ dep.name \notin DOMAIN mods
               \/ ~version_satisfies(mods[dep.name].version, dep.version)

\* The target vectors resolve is asked about: one or two distinct registered
\* names.
TargetVectors ==
    UNION {Perms(S) : S \in {T \in SUBSET (DOMAIN modules) :
                                T # {} /\ Cardinality(T) <= 2}}

(***************************************************************************)
(* C9: for every registry and target set T, resolve(T) fails reporting     *)
(* missing dependencies if and only if some node reachable from T via      *)
(* mandatory edges, at any depth, names a dependency that is absent from   *)
(* the registry or present with a version that does not satisfy the        *)
(* edge's requirement.                                                     *)
(***************************************************************************)
C9_MissingIffUnsatisfied ==
    \A T \in TargetVectors :
        \A result \in resolve_dependencies(modules, dependency_graph,
                                           reverse_graph, T) :
            (~result.success /\ result.missing_deps # {})
                <=> ClosureUnsatisfied(modules, Range(T))

\* The registered dependencies of a module whose version its requirement
\* rejects.
Mismatched(mods, module_name) ==
    IF module_name \notin DOMAIN mods THEN {}
    ELSE {dep.name : dep \in {x \in Range(mods[module_name].dependencies) :
                                /\ ~x.optional
                                /\ x.version.op # "empty"
                                /\ x.name \in DOMAIN mods
                                /\ ~version_satisfies(mods[x.name].version,
                                                      x.version)}}

(***************************************************************************)
(* C10: if module a has a mandatory dependency on b with a non-empty       *)
(* version requirement and b is registered at a version that does not      *)
(* satisfy it, then enable(a) fails, a remains Installed and b is not      *)
(* loaded, initialized or started.                                         *)
(***************************************************************************)
C10_MismatchFailsEnable ==
    \A a \in DOMAIN module_registry :
        (module_registry[a].state = "INSTALLED" /\ Mismatched(modules, a) # {}) =>
            \A r \in enable_module(D, a) :
                /\ ~r.ok
                /\ StateOf(r.d.reg, a) = "INSTALLED"
                /\ \A c \in Calls(r.d.log, {"dlopen", "init", "start"}) :
                        c.name \notin Mismatched(modules, a)

\* The names reachable from S over the forward map, S included.
ForwardClosure(fwd, S) == all_needed_from(fwd, S)

\* No registered module reaches itself over the forward map.
Acyclic(fwd) ==
    \A m \in DOMAIN fwd : m \notin ForwardClosure(fwd, fwd[m])

\* The target vectors: up to two distinct registered names, in either order.
Targets(mods) ==
    UNION {Perms(S) : S \in {T \in SUBSET (DOMAIN mods) :
                                T # {} /\ Cardinality(T) <= 2}}

\* The positions of a name in an order.
Positions(order, module_name) ==
    {i \in DOMAIN order : order[i] = module_name}

\* Every name of the order occurs once, and every mandatory dependency of a
\* module of the order that is itself in the order comes before it.
DependencyFirst(mods, order) ==
    /\ \A i, j \in DOMAIN order : order[i] = order[j] => i = j
    /\ \A i \in DOMAIN order :
        \A x \in MandatoryEdges(mods, order[i]) :
            \A j \in Positions(order, x) : j < i

CycleSets(fwd) ==
    {S \in SUBSET (DOMAIN fwd) :
        /\ S # {}
        /\ \E p \in Perms(S) :
            \A i \in DOMAIN p : p[(i % Len(p)) + 1] \in fwd[p[i]]}

\* The cycles reachable from the targets.
ReachableCycles(fwd, T) ==
    {S \in CycleSets(fwd) : S \subseteq ForwardClosure(fwd, Range(T))}

(***************************************************************************)
(* C12: for any registry containing a dependency cycle reachable from T,   *)
(* resolve(T) fails and the cyclic set it reports contains every node of   *)
(* at least one cycle reachable from T.                                    *)
(***************************************************************************)
C12_CycleRejection ==
    \A T \in Targets(modules) :
        ReachableCycles(dependency_graph, T) # {} =>
            \A result \in resolve_dependencies(modules, dependency_graph,
                                               reverse_graph, T) :
                /\ ~result.success
                /\ \E S \in ReachableCycles(dependency_graph, T) :
                        S \subseteq result.circular_deps

(***************************************************************************)
(* C13: every name in the cyclic set reported by a failed resolve(T) lies  *)
(* on a dependency cycle reachable from T; predecessors that merely lead   *)
(* into a cycle are not reported.                                          *)
(***************************************************************************)
C13_CyclicSetOnCycles ==
    \A T \in Targets(modules) :
        \A result \in resolve_dependencies(modules, dependency_graph,
                                           reverse_graph, T) :
            ~result.success =>
                \A x \in result.circular_deps :
                    \E S \in ReachableCycles(dependency_graph, T) : x \in S

\* The modules of a name -> manifest map that declare a dependency on a name.
DeclaredDependents(mods, module_name) ==
    {m \in DOMAIN mods :
        \E dep \in Range(mods[m].dependencies) : dep.name = module_name}

\* The manifests the registry holds.
RegistryManifests ==
    [m \in DOMAIN module_registry |-> module_registry[m].manifest]

\* uninstall(n) has no outcome but a refusal that changes nothing.
UninstallRefused(n) ==
    \A r \in uninstall_module(D, n) :
        /\ ~r.ok
        /\ r.d.reg = module_registry
        /\ r.d.mods = modules
        /\ r.d.fwd = dependency_graph
        /\ r.d.rev = reverse_graph
        /\ r.d.disk = disk
        /\ r.d.ld = loaded_modules
        /\ r.d.log = <<>>

(***************************************************************************)
(* C14: uninstall(name) is refused whenever some registered module         *)
(* declares a dependency on name: it returns failure, name stays in the    *)
(* registry and the resolver, no files are removed, and the states of name *)
(* and of all its dependents are unchanged.                                *)
(***************************************************************************)
C14_UninstallRefusedWithDependents ==
    \A n \in DOMAIN module_registry :
        DeclaredDependents(RegistryManifests, n) # {} => UninstallRefused(n)

\* The same over the manifests the resolver holds, which is what
\* uninstall_module consults: this much the code keeps.
UninstallRefusedWithResolverDependents ==
    \A n \in DOMAIN module_registry :
        DeclaredDependents(modules, n) # {} => UninstallRefused(n)

\* Every call into a library that the log holds returned success.
AllCallsOk(log) == \A i \in DOMAIN log : log[i].ok

\* The positions of the successful start calls of a module in a log.
StartedAt(log, module_name) ==
    {i \in DOMAIN log : /\ log[i].call = "start"
                        /\ log[i].name = module_name
                        /\ log[i].ok}

\* The modules the registry holds as RUNNING.
RunningModules(reg) == {m \in DOMAIN reg : reg[m].state = "RUNNING"}

\* The outcomes of shutdown from the current state followed by initialize in
\* the next process, as [down, up]: the return of each.
Restarts ==
    UNION {{[down |-> s, up |-> r]
            : r \in initialize(new_process(s.d), FALSE)}
           : s \in shutdown(D, initialized)}

\* In a restart every library call succeeded and so did the scan.
CleanRestart(x) ==
    AllCallsOk(x.down.d.log) /\ AllCallsOk(x.up.d.log) /\ x.up.ok

(***************************************************************************)
(* C15: restart fidelity.  From a serving host whose registry is acyclic,  *)
(* when every hook succeeds during shutdown and during the initialize of   *)
(* the next process over the same modules directory, every module that was *)
(* Running at shutdown is Running again, and each mandatory dependency of  *)
(* a module that is Running after the restart was started before it.       *)
(***************************************************************************)
C15_RestartFidelity ==
    (pc = "serving" /\ Acyclic(build_forward(RegistryManifests)))
    => \A x \in Restarts :
         CleanRestart(x)
         => /\ RunningModules(module_registry) \subseteq RunningModules(x.up.d.reg)
            /\ \A b \in RunningModules(x.up.d.reg) :
                 \A a \in MandatoryDeps(x.up.d.reg[b].manifest) :
                    /\ StartedAt(x.up.d.log, a) # {}
                    /\ \A i \in StartedAt(x.up.d.log, a),
                          j \in StartedAt(x.up.d.log, b) : i < j

\* The same over the states in which the registry and the resolver hold the
\* same manifests: no package was installed over a registered name.
RestartFidelityWithoutReinstall ==
    (RegistryManifests = modules) => C15_RestartFidelity

\* The modules the state file records as Running.
SavedRunning(file) ==
    {m \in DOMAIN load_saved_module_states(file) :
        load_saved_module_states(file)[m] = "RUNNING"}

\* The modules of a directory whose mandatory dependencies, direct and
\* transitive, are all in the directory.
Satisfiable(dir) ==
    {m \in DOMAIN dir : MandatoryClosure(dir, {m}) \subseteq DOMAIN dir}

(***************************************************************************)
(* C16: restore closure.  After an initialize whose scan succeeded, every  *)
(* module that the state file records as Running and that is installed     *)
(* together with all its mandatory dependencies is Running or has an error *)
(* recorded for it in the registry.                                        *)
(***************************************************************************)
C16_RestoreClosure ==
    pc = "boot"
    => \A r \in initialize(D, initialized) :
         r.ok => \A m \in SavedRunning(state_file) \cap Satisfiable(disk) :
                    \/ StateOf(r.d.reg, m) = "RUNNING"
                    \/ r.d.reg[m].error_message # ""

\* The entries of a log for the operations restore_saved_states called.
Attempts(log, operation) ==
    {log[i] : i \in {j \in DOMAIN log : log[j].call = operation}}

\* The names the state file holds.
SavedNames(file) == DOMAIN load_saved_module_states(file)

(***************************************************************************)
(* C17: restore guards.  In every outcome of initialize in a new process:  *)
(* restore called enable only on modules that were Installed at the call   *)
(* and start only on modules that were Initialized or Stopped; a saved     *)
(* name that is not installed is neither registered nor operated on; and   *)
(* whenever the scan succeeded (the daemon is initialized) the result is   *)
(* success, whatever failed during restore.                                *)
(***************************************************************************)
C17_RestoreGuards ==
    pc = "boot"
    => \A r \in initialize(D, initialized) :
         /\ \A e \in Attempts(r.d.log, "enable_module") : e.state = "INSTALLED"
         /\ \A e \in Attempts(r.d.log, "start_module") :
                e.state \in {"INITIALIZED", "STOPPED"}
         /\ \A n \in SavedNames(state_file) \ DOMAIN disk :
                /\ n \notin DOMAIN r.d.reg
                /\ \A i \in DOMAIN r.d.log : r.d.log[i].name # n
         /\ r.initialized => r.ok

\* A new process over a directory whose state file names a module that is
\* no longer installed and a module recorded as Running; in one outcome of
\* initialize restore calls enable and start, a hook fails, a saved Running
\* module is left not Running, and the result is success.
C17_Witness ==
    /\ pc = "boot"
    /\ SavedNames(state_file) \ DOMAIN disk # {}
    /\ \E r \in initialize(D, initialized) :
        /\ r.ok
        /\ Attempts(r.d.log, "enable_module") # {}
        /\ Attempts(r.d.log, "start_module") # {}
        /\ ~AllCallsOk(r.d.log)
        /\ \E m \in SavedRunning(state_file) \cap DOMAIN disk :
                StateOf(r.d.reg, m) # "RUNNING"

\* The file save_module_states writes for a registry.
RecordOf(reg) ==
    [present |-> TRUE,
     entries |-> [m \in DOMAIN reg |-> state_to_string(reg[m].state)]]

\* The names of the modules of a registry that are in one of the states.
InState(reg, states) == {m \in DOMAIN reg : reg[m].state \in states}

\* The positions of the entries of a log for an operation shutdown called.
AttemptedAt(log, operation) == {i \in DOMAIN log : log[i].call = operation}

\* The modules whose stop hook a log holds as failed.
StopFailed(log) ==
    {log[i].name : i \in {j \in DOMAIN log : log[j].call = "stop" /\ ~log[j].ok}}

\* The states after the stop loop of shutdown, for each iteration order.
AfterStopLoop ==
    UNION {shutdown_stop_loop(save_module_states(D), order, 1)
           : order \in Perms(DOMAIN module_registry)}

Fields(d) == [d EXCEPT !.log = <<>>]

\* Every outcome of a shutdown call on d changes nothing and calls nothing.
ShutdownChangesNothing(d, is_initialized) ==
    \A t \in shutdown(d, is_initialized) :
        /\ t.d = d
        /\ t.initialized = is_initialized

(***************************************************************************)
(* C19: idempotent shutdown.  In every outcome of shutdown from a serving  *)
(* host no module of the registry is Running, and a second shutdown call   *)
(* changes nothing: registry, resolver, loader, last error, directory and  *)
(* state file are as the first call left them, and no hook is called.  The *)
(* same holds in the states where main() has called shutdown and the       *)
(* signal handler calls it again.                                          *)
(***************************************************************************)
C19_IdempotentShutdown ==
    /\ (pc = "serving" /\ initialized)
       => \A s \in shutdown(D, initialized) :
            /\ InState(s.d.reg, {"RUNNING"}) = {}
            /\ ShutdownChangesNothing(Fields(s.d), s.initialized)
    /\ pc = "stopped" => ShutdownChangesNothing(D, initialized)

\* shutdown has returned on a host that had a Running module, with a state
\* file that holds entries and a loader that still holds a record.
C19_Witness ==
    /\ pc = "stopped"
    /\ ~initialized
    /\ SavedRunning(state_file) # {}
    /\ DOMAIN loaded_modules # {}
    /\ module_registry = <<>>

\* The outcomes of the six commands from d, for every argument.
CommandOutcomes(d) ==
    UNION ({install_module(d, manifest, valid)
            : manifest \in LifePackages, valid \in BOOLEAN}
           \cup {uninstall_module(d, n) : n \in AllNames}
           \cup {enable_module(d, n) : n \in AllNames}
           \cup {disable_module(d, n) : n \in AllNames}
           \cup {start_module(d, n) : n \in AllNames}
           \cup {stop_module(d, n) : n \in AllNames})

\* Another content for the state file than the one it has.
OtherFile ==
    IF state_file.present THEN NoStateFile
    ELSE [present |-> TRUE, entries |-> [m \in DOMAIN disk |-> "Running"]]

\* The outcomes with the state file put back to the current one.
WithFile(outcomes) == {[r EXCEPT !.d.file = state_file] : r \in outcomes}

(***************************************************************************)
(* C20: the state file is written by shutdown only and read by initialize  *)
(* only.  Every outcome of install, uninstall, enable, disable, start and  *)
(* stop on a serving host, and every outcome of initialize in a new        *)
(* process, leaves the state file as it was; and the outcomes of the six   *)
(* commands and of shutdown are the same whatever the state file holds.    *)
(***************************************************************************)
C20_RecordWrittenByShutdownOnly ==
    /\ (pc = "serving" /\ initialized)
       => /\ \A r \in CommandOutcomes(D) : r.d.file = state_file
          /\ WithFile(CommandOutcomes([D EXCEPT !.file = OtherFile]))
               = CommandOutcomes(D)
          /\ {[s EXCEPT !.d.file = state_file]
                : s \in shutdown([D EXCEPT !.file = OtherFile], initialized)}
               = {[s EXCEPT !.d.file = state_file] : s \in shutdown(D, initialized)}
    /\ pc = "boot"
       => \A r \in initialize(D, initialized) : r.d.file = state_file

\* A serving host whose state file, written by an earlier shutdown with a
\* module Running, differs from what a save would write now, with a command
\* that succeeds and changes the registry.
C20_Witness ==
    /\ pc = "serving" /\ initialized
    /\ SavedRunning(state_file) # {}
    /\ state_file # RecordOf(module_registry)
    /\ InState(module_registry, {"RUNNING"}) # {}
    /\ \E r \in CommandOutcomes(D) : r.ok /\ r.d.reg # module_registry

\* A reachable case of the read: a new process in which an outcome of
\* initialize is not an outcome under another state file.
InitializeReadsStateFile ==
    /\ pc = "boot"
    /\ SavedRunning(state_file) \cap DOMAIN disk # {}
    /\ \E r \in initialize(D, initialized) :
         /\ InState(r.d.reg, {"RUNNING"}) # {}
         /\ r \notin WithFile(initialize([D EXCEPT !.file = OtherFile],
                                          initialized))

(***************************************************************************)
(* C21: single writer.  No supervisor operation begins while another is   *)
(* in flight: whenever the signal handler has run shutdown, no control     *)
(* command had been dispatched and not yet returned.                       *)
(***************************************************************************)
C21_SingleWriter ==
    pc.at = "signalled" => pc.op = "none"

\* What the interleaving leaves behind: shutdown has run inside an enable
\* that was in its init hook, the state file records the module as Loaded
\* and the loader still holds its library.
ShutdownInsideEnable ==
    /\ pc.at = "signalled"
    /\ pc.op = "enable"
    /\ pc.name \in DOMAIN state_file.entries
    /\ state_file.entries[pc.name] = "Loaded"
    /\ pc.name \in DOMAIN loaded_modules

\* Followed in two parts, enable_module has the outcomes it has as a whole.
EnableSplitsAtInit ==
    pc.at = "entry"
    => \A n \in LifeNames :
         \A d1 \in enable_module_to_init(D, n) :
            \A r \in enable_module_from_init(d1, n) :
                r \in enable_module(D, n)

\* The outcomes of the six supervisor operations from the current state,
\* for every argument.
OperationOutcomes ==
    UNION ({install_module(D, manifest, valid)
            : manifest \in Packages, valid \in BOOLEAN}
           \cup {uninstall_module(D, n) : n \in AllNames}
           \cup {enable_module(D, n) : n \in AllNames}
           \cup {disable_module(D, n) : n \in AllNames}
           \cup {start_module(D, n) : n \in AllNames}
           \cup {stop_module(D, n) : n \in AllNames})

(***************************************************************************)
(* C22: error accounting.  On a serving host, every failing return of     *)
(* install, uninstall, enable, disable, start and stop leaves a last-error *)
(* string recorded, and every successful return leaves it empty.           *)
(***************************************************************************)
C22_ErrorAccounting ==
    (pc = "serving" /\ initialized)
    => \A r \in OperationOutcomes :
         IF r.ok THEN r.d.le = "" ELSE r.d.le # ""

\* The two halves on their own: a failing return records an error; a
\* successful return clears it.
FailureRecordsError ==
    (pc = "serving" /\ initialized)
    => \A r \in OperationOutcomes : ~r.ok => r.d.le # ""

SuccessClearsError ==
    (pc = "serving" /\ initialized)
    => \A r \in OperationOutcomes : r.ok => r.d.le = ""

(***************************************************************************)
(* C23: on a serving host, every outcome of install of a package whose     *)
(* manifest name is in the registry is a failure that leaves the registry  *)
(* (state and manifest of the entry included), the resolver and the loader *)
(* as they were.                                                           *)
(***************************************************************************)
C23_InstallRejectsRegisteredName ==
    (pc = "serving" /\ initialized)
    => \A manifest \in {m \in Packages : m.name \in DOMAIN module_registry} :
         \A r \in install_module(D, manifest, TRUE) :
            /\ ~r.ok
            /\ r.d.reg = module_registry
            /\ r.d.mods = modules
            /\ r.d.fwd = dependency_graph
            /\ r.d.rev = reverse_graph
            /\ r.d.ld = loaded_modules

\* What the overwrite leaves: a module the loader holds as running while
\* the registry says Installed, under a manifest the resolver does not have.
InstallOverRunningModule ==
    /\ pc = "serving"
    /\ \E n \in DOMAIN module_registry :
        /\ module_registry[n].state = "INSTALLED"
        /\ n \in DOMAIN loaded_modules
        /\ loaded_modules[n].running
        /\ module_registry[n].manifest # modules[n]

\* The order of versions: the numeric triples compared one after the other;
\* of two versions with the same triple, one with a pre-release suffix is
\* lower than one without.
TripleLess(v, w) ==
    \/ v.major < w.major
    \/ v.major = w.major /\ v.minor < w.minor
    \/ v.major = w.major /\ v.minor = w.minor /\ v.patch < w.patch

AtLeast(v, w) ==
    /\ ~TripleLess(v, w)
    /\ (TripleLess(w, v) \/ v.suffix = "" \/ v.suffix = w.suffix)

\* The host meets every minimum a manifest states.
HostMeets(manifest) ==
    /\ manifest.minimum_core_version.present
        => AtLeast(HELIX_CORE_VERSION, manifest.minimum_core_version.version)
    /\ manifest.minimum_api_version.present
        => AtLeast(HELIX_API_VERSION, manifest.minimum_api_version.version)

(***************************************************************************)
(* C24: host compatibility.  On a serving host, install of a package       *)
(* succeeds only if the host's core and API versions are at least the      *)
(* minimums its manifest states; for a package whose minimums the host     *)
(* does not meet every outcome is a rejection that leaves the registry,    *)
(* the resolver and the installed directories as they were.                *)
(***************************************************************************)
C24_HostCompatibility ==
    (pc = "serving" /\ initialized)
    => \A manifest \in HostPackages, valid \in BOOLEAN :
         \A r \in install_module(D, manifest, valid) :
            /\ r.ok => HostMeets(manifest)
            /\ ~HostMeets(manifest)
                => /\ ~r.ok
                   /\ r.d.reg = module_registry
                   /\ r.d.mods = modules
                   /\ r.d.fwd = dependency_graph
                   /\ r.d.rev = reverse_graph
                   /\ r.d.disk = disk

\* The same for the packages whose minimums carry no suffix.
HostCompatibilityOfPlainMinimums ==
    (pc = "serving" /\ initialized)
    => \A manifest \in {m \in HostPackages :
                            /\ m.minimum_core_version.version.suffix = ""
                            /\ m.minimum_api_version.version.suffix = ""},
          valid \in BOOLEAN :
         \A r \in install_module(D, manifest, valid) :
            /\ r.ok => HostMeets(manifest)
            /\ ~HostMeets(manifest)
                => /\ ~r.ok
                   /\ r.d.reg = module_registry
                   /\ r.d.mods = modules
                   /\ r.d.fwd = dependency_graph
                   /\ r.d.rev = reverse_graph
                   /\ r.d.disk = disk

\* Resolution of the single target succeeds.
ResolutionSucceeds(module_name) ==
    \A res \in resolve_dependencies(modules, dependency_graph, reverse_graph,
                                     <<module_name>>) : res.success

\* The position of the first failed call of a log (0 when none failed).
FirstFailure(log) ==
    IF \A i \in DOMAIN log : log[i].ok THEN 0
    ELSE CHOOSE i \in DOMAIN log :
            ~log[i].ok /\ \A j \in 1..(i - 1) : log[j].ok

\* The modules a log holds a call for.
Touched(log) == {log[i].name : i \in DOMAIN log}

\* What C25 asks of a failed outcome r of enable(M).
StoppedAtFirstFailure(M, r) ==
    LET log == r.d.log
        f == FirstFailure(log)
    IN  /\ r.d.reg[M].state = "INSTALLED"
        /\ M \notin DOMAIN r.d.ld
        /\ f > 0 => \A i \in (f + 1)..Len(log) :
                         /\ log[i].name = log[f].name
                         /\ log[i].call \in {"stop", "destroy", "dlclose"}
        /\ \A n \in DOMAIN module_registry \ Touched(log) :
             r.d.reg[n] = module_registry[n]
        /\ \A n \in DOMAIN module_registry :
             StartedAt(log, n) # {} => r.d.reg[n].state = "RUNNING"

\* The Installed modules whose resolution succeeds.
Enableable ==
    {n \in DOMAIN module_registry :
        module_registry[n].state = "INSTALLED" /\ ResolutionSucceeds(n)}

(***************************************************************************)
(* C25: when enable(M) of an Installed module fails after its resolution   *)
(* succeeded, M is Installed and has no loader record; after the first     *)
(* failed library call the only calls are the unloading of the module that *)
(* failed; a registered module no call was made for keeps its state; and   *)
(* every module this call started is Running.                              *)
(***************************************************************************)
C25_EnableStopsAtFirstFailure ==
    (pc = "serving" /\ initialized)
    => \A M \in Enableable :
         \A r \in enable_module(D, M) : ~r.ok => StoppedAtFirstFailure(M, r)

\* The same where no Installed module has a loader record on entry and no
\* close of a library fails during the call.
EnableStopsAtFirstFailureWhenClosesSucceed ==
    (/\ pc = "serving" /\ initialized
     /\ \A n \in DOMAIN module_registry :
            module_registry[n].state = "INSTALLED" => n \notin DOMAIN loaded_modules)
    => \A M \in Enableable :
         \A r \in enable_module(D, M) :
            (~r.ok /\ \A c \in Calls(r.d.log, {"dlclose"}) : c.ok)
            => StoppedAtFirstFailure(M, r)

\* The Running modules that depend on a module, by the resolver's reverse
\* map and by the manifests of the registry.
RunningDependents(module_name) ==
    {x \in InState(module_registry, {"RUNNING"}) :
        \/ x \in get_dependents(reverse_graph, module_name)
        \/ module_name \in MandatoryDeps(module_registry[x].manifest)}

(***************************************************************************)
(* C26: on a serving host, stop(name) of a Running module is not blocked   *)
(* by dependents: in every outcome name is Stopped or Error, the stop hook *)
(* was called when the loader holds name as running, and the registry      *)
(* entry and the loader record of every other module are as they were.     *)
(***************************************************************************)
C26_StopNotBlockedByDependents ==
    (pc = "serving" /\ initialized)
    => \A name \in InState(module_registry, {"RUNNING"}) :
         \A r \in stop_module(D, name) :
            /\ r.d.reg[name].state = (IF r.ok THEN "STOPPED" ELSE "ERROR")
            /\ (name \in DOMAIN loaded_modules /\ loaded_modules[name].running)
                => \E c \in Calls(r.d.log, {"stop"}) : c.name = name
            /\ Touched(r.d.log) \subseteq {name}
            /\ \A m \in DOMAIN module_registry \ {name} :
                    r.d.reg[m] = module_registry[m]
            /\ DOMAIN r.d.reg = DOMAIN module_registry
            /\ \A m \in DOMAIN loaded_modules \ {name} :
                    m \in DOMAIN r.d.ld /\ r.d.ld[m] = loaded_modules[m]

\* A Running module with a Running dependent whose stop has an outcome
\* that succeeds and one in which the hook fails.
C26_Witness ==
    /\ pc = "serving" /\ initialized
    /\ \E name \in InState(module_registry, {"RUNNING"}) :
        /\ RunningDependents(name) # {}
        /\ \E r \in stop_module(D, name) :
                r.ok /\ RunningDependents(name) \subseteq InState(r.d.reg, {"RUNNING"})
        /\ \E r \in stop_module(D, name) : ~r.ok

\* The resolver and the registry of d hold the same names, each entry under
\* the name of its manifest, and the resolver's two maps follow its modules.
SameNames(d) ==
    /\ DOMAIN d.mods = DOMAIN d.reg
    /\ \A n \in DOMAIN d.reg : d.reg[n].manifest.name = n
    /\ \A n \in DOMAIN d.mods : d.mods[n].name = n
    /\ d.fwd = build_forward(d.mods)
    /\ d.rev = build_reverse(d.mods)

(***************************************************************************)
(* C27: after every supervisor operation the names the dependency resolver *)
(* holds are the names of the registry, one entry per name in each.  It    *)
(* holds in every state initialize, install, uninstall and shutdown (and   *)
(* the other commands) leave, and in every outcome of refresh from such a  *)
(* state.                                                                  *)
(***************************************************************************)
C27_ResolverNamesAreRegistryNames ==
    /\ SameNames(D)
    /\ \A r \in refresh_modules(D, initialized) : SameNames(r.d)

\* install has registered a second manifest under a name the resolver
\* holds with its first manifest, beside another registered module, and a
\* refresh would put the directory's manifests into the registry.
C27_Witness ==
    /\ pc = "serving" /\ initialized
    /\ Cardinality(DOMAIN module_registry) >= 2
    /\ DOMAIN modules = DOMAIN module_registry
    /\ \E n \in DOMAIN module_registry :
            module_registry[n].manifest # modules[n]
    /\ \E r \in refresh_modules(D, initialized) :
            r.ok /\ r.d.reg # module_registry /\ SameNames(r.d)

(***************************************************************************)
(* C28: loader single occupancy.  load of a name that has a loader record  *)
(* fails in every outcome without opening the library: the loader's        *)
(* records, that of the name included, and everything else are as before.  *)
(***************************************************************************)
C28_LoaderSingleOccupancy ==
    \A name \in DOMAIN loaded_modules :
        \A r \in loader_load_module(D, name) :
            /\ ~r.ok
            /\ r.d.ld = loaded_modules
            /\ Calls(r.d.log, {"dlopen"}) = {}
            /\ r.d = D

\* An Installed module whose loader record is initialized and running:
\* enable_module calls load for it and fails there.
C28_Witness ==
    /\ pc = "serving" /\ initialized
    /\ \E name \in InState(module_registry, {"INSTALLED"}) \cap DOMAIN loaded_modules :
        /\ loaded_modules[name].initialized
        /\ loaded_modules[name].running
        /\ loader_load_module(D, name) = {Fail(D)}
        /\ \A r \in enable_module(D, name) :
                ~r.ok /\ r.d.ld = loaded_modules

\* The outcomes of unload(name) in which the close of the handle was reached:
\* the module was not running, or its stop succeeded.
ReachedClose(name) ==
    {r \in loader_unload_module(D, name) :
        \E c \in Calls(r.d.log, {"dlclose"}) : c.name = name}

(***************************************************************************)
(* C29: loader unload(name).  In every outcome in which the close of the   *)
(* handle was reached, no record for name remains, and the result is false *)
(* exactly when the close failed.                                          *)
(***************************************************************************)
C29_UnloadDropsRecord ==
    \A name \in DOMAIN loaded_modules :
        \A r \in ReachedClose(name) :
            /\ name \notin DOMAIN r.d.ld
            /\ r.ok = (\A c \in Calls(r.d.log, {"dlclose"}) : c.ok)

\* What unload does: the record is dropped exactly when the close succeeds,
\* and a failed close leaves the record with the flags it had at the close.
UnloadKeepsRecordOfFailedClose ==
    \A name \in DOMAIN loaded_modules :
        \A r \in ReachedClose(name) :
            /\ r.ok = (\A c \in Calls(r.d.log, {"dlclose"}) : c.ok)
            /\ r.ok = (name \notin DOMAIN r.d.ld)
            /\ ~r.ok => /\ ~r.d.ld[name].running
                        /\ r.d.ld[name].initialized = loaded_modules[name].initialized

\* A loader record whose unload reaches the close in both ways.
UnloadReachesFailedClose ==
    /\ pc = "serving" /\ initialized
    /\ \E name \in DOMAIN loaded_modules :
        /\ loaded_modules[name].running
        /\ \E r \in ReachedClose(name) : ~r.ok /\ name \in DOMAIN r.d.ld
        /\ \E r \in ReachedClose(name) : r.ok

\* The outcomes of a set in which the hook of a kind returned nonzero for
\* name.
HookFailed(outcomes, hook, name) ==
    {r \in outcomes :
        \E c \in Calls(r.d.log, {hook}) : c.name = name /\ ~c.ok}

(***************************************************************************)
(* C30: a hook that returns nonzero leaves the loader's flags untouched.   *)
(* When the init hook fails, init fails and initialized stays false; when  *)
(* the start hook fails, start fails and running stays false; when the     *)
(* stop hook fails, stop fails and running stays true; no loader record    *)
(* changes in any of the three.  The supervisor's stop of a Running module *)
(* whose stop hook fails returns failure with the module in Error and the  *)
(* loader's running flag still true.                                       *)
(***************************************************************************)
C30_HookFailureLeavesFlags ==
    /\ \A name \in DOMAIN loaded_modules :
        /\ \A r \in HookFailed(loader_initialize_module(D, name), "init", name) :
                ~r.ok /\ r.d.ld = loaded_modules /\ ~r.d.ld[name].initialized
        /\ \A r \in HookFailed(loader_start_module(D, name), "start", name) :
                ~r.ok /\ r.d.ld = loaded_modules /\ ~r.d.ld[name].running
        /\ \A r \in HookFailed(loader_stop_module(D, name), "stop", name) :
                ~r.ok /\ r.d.ld = loaded_modules /\ r.d.ld[name].running
    /\ \A name \in InState(module_registry, {"RUNNING"}) :
        \A r \in HookFailed(stop_module(D, name), "stop", name) :
            /\ ~r.ok
            /\ r.d.reg[name].state = "ERROR"
            /\ r.d.ld = loaded_modules
            /\ r.d.ld[name].running

\* Three loader records at once: one whose init hook can fail, one whose
\* start hook can fail, and a Running module whose stop hook can fail.
C30_Witness ==
    /\ pc = "serving" /\ initialized
    /\ \E x, y, z \in DOMAIN loaded_modules :
        /\ HookFailed(loader_initialize_module(D, x), "init", x) # {}
        /\ HookFailed(loader_start_module(D, y), "start", y) # {}
        /\ z \in InState(module_registry, {"RUNNING"})
        /\ HookFailed(stop_module(D, z), "stop", z) # {}

\* The hook calls an outcome of a loader operation on d has added.
HooksInvoked(d, r) == {r.d.log[i] : i \in (DOMAIN r.d.log) \ (DOMAIN d.log)}

\* A loader operation on name refused: it failed, no hook ran, nothing changed.
Refused(outcomes) == outcomes = {Fail(D)}

\* Every outcome of a loader operation on name invoked exactly the one hook.
InvokedOnly(outcomes, hook, name) ==
    /\ outcomes # {}
    /\ \A r \in outcomes :
          \E c \in HooksInvoked(D, r) :
              /\ HooksInvoked(D, r) = {c}
              /\ c.call = hook /\ c.name = name /\ c.ok = r.ok

(***************************************************************************)
(* C31: at-most-once loader transitions.  For every name: init invokes the *)
(* init hook exactly when the name has a record that is not initialized,   *)
(* start invokes the start hook exactly when the record is initialized and *)
(* not running, stop invokes the stop hook exactly when it is running; in  *)
(* all other cases the call fails with no hook invoked and nothing         *)
(* changed.  A successful init sets initialized, so a second init on the   *)
(* same record is refused.  In every reachable state a running record is   *)
(* initialized.                                                            *)
(***************************************************************************)
C31_AtMostOnceTransitions ==
    /\ \A name \in AllNames :
        LET has == name \in DOMAIN loaded_modules
            rec == loaded_modules[name]
        IN  /\ IF has /\ ~rec.initialized
               THEN InvokedOnly(loader_initialize_module(D, name), "init", name)
               ELSE Refused(loader_initialize_module(D, name))
            /\ IF has /\ rec.initialized /\ ~rec.running
               THEN InvokedOnly(loader_start_module(D, name), "start", name)
               ELSE Refused(loader_start_module(D, name))
            /\ IF has /\ rec.running
               THEN InvokedOnly(loader_stop_module(D, name), "stop", name)
               ELSE Refused(loader_stop_module(D, name))
            /\ has => \A r \in loader_initialize_module(D, name) :
                         r.ok => loader_initialize_module(r.d, name) = {Fail(r.d)}
    /\ \A name \in DOMAIN loaded_modules :
            loaded_modules[name].running => loaded_modules[name].initialized

\* A running record, a record that is initialized and not running, and a
\* record that is not initialized, side by side.
C31_Witness ==
    /\ pc = "serving" /\ initialized
    /\ \E x, y, z \in DOMAIN loaded_modules :
        /\ loaded_modules[x].running
        /\ Refused(loader_start_module(D, x))
        /\ loaded_modules[y].initialized /\ ~loaded_modules[y].running
        /\ Refused(loader_stop_module(D, y))
        /\ ~loaded_modules[z].initialized
        /\ Refused(loader_start_module(D, z))
        /\ \E r \in loader_initialize_module(D, z) :
                r.ok /\ loader_initialize_module(r.d, z) = {Fail(r.d)}

\* The dependencies module m declares in the manifest the resolver holds.
Declared(m) == Range(modules[m].dependencies)

\* The names a module declares as optional only and that are not registered.
UnregisteredOptional(m) ==
    {dep.name : dep \in {x \in Declared(m) :
                            x.optional /\ x.name \notin DOMAIN modules}}
    \ {dep.name : dep \in {x \in Declared(m) : ~x.optional}}

(***************************************************************************)
(* C32: resolver graph invariant after any sequence of add, remove and     *)
(* clear.  Adding a manifest under a registered name changes nothing; the  *)
(* forward map has exactly the registered names as keys; forward[m] holds  *)
(* declared dependencies only, and a declared dependency is in forward[m]  *)
(* unless it is optional and its target is not registered; m is in         *)
(* reverse[d] exactly when d is in forward[m]; and a name that is only an  *)
(* unregistered optional dependency is never reported missing by resolve.  *)
(***************************************************************************)
C32_ResolverGraphInvariant ==
    /\ \A manifest \in ResolverPackages :
            manifest.name \in DOMAIN modules => add_module(D, manifest) = D
    /\ DOMAIN dependency_graph = DOMAIN modules
    /\ \A m \in DOMAIN modules :
        /\ dependency_graph[m] \subseteq {dep.name : dep \in Declared(m)}
        /\ \A dep \in Declared(m) :
                (dep.name \in dependency_graph[m])
                <=> ~(dep.optional /\ dep.name \notin DOMAIN modules)
    /\ \A m, x \in ResolverNames \cup {Phantom} :
            (m \in get_dependents(reverse_graph, x))
            <=> (m \in DOMAIN dependency_graph /\ x \in dependency_graph[m])
    /\ DOMAIN reverse_graph \subseteq ResolverNames \cup {Phantom}
    /\ \A m \in DOMAIN reverse_graph : reverse_graph[m] \subseteq DOMAIN modules
    /\ \A m \in DOMAIN modules :
            \A r \in resolve_dependencies(modules, dependency_graph,
                                          reverse_graph, <<m>>) :
                r.missing_deps \cap UnregisteredOptional(m) = {}

\* b is registered with a mandatory dependency on the registered a and an
\* optional one on the unregistered d: the edge to d is absent, resolve of b
\* succeeds, and a second manifest for b is rejected.
C32_Witness ==
    /\ pc = "resolver"
    /\ "b" \in DOMAIN modules /\ modules["b"] = rb3
    /\ "a" \in DOMAIN modules /\ "d" \notin DOMAIN modules
    /\ dependency_graph["b"] = {"a"}
    /\ "d" \notin DOMAIN reverse_graph
    /\ add_module(D, rb1) = D
    /\ \E r \in resolve_dependencies(modules, dependency_graph,
                                      reverse_graph, <<"b">>) : r.success

\* The optional edge is present once its target is registered.
OptionalEdgeToRegisteredTarget ==
    /\ pc = "resolver"
    /\ "b" \in DOMAIN modules /\ modules["b"] = rb3
    /\ "d" \in DOMAIN modules
    /\ "d" \in dependency_graph["b"]
    /\ "b" \in reverse_graph["d"]

\* The position of a resolver name in lexicographic order.
NameRank(module_name) ==
    CASE module_name = "a" -> 1 [] module_name = "b" -> 2
      [] module_name = "c" -> 3 [] module_name = "d" -> 4
      [] OTHER -> 26

\* The lexicographically smallest name of a non-empty set.
Smallest(S) == CHOOSE x \in S : \A y \in S : NameRank(x) <= NameRank(y)

\* The order that takes, among the nodes whose dependencies are all placed,
\* the lexicographically smallest one.
RECURSIVE LexicographicOrder(_, _, _)
LexicographicOrder(fwd, needed, placed) ==
    LET ready == {m \in needed \ Range(placed) :
                    (IF m \in DOMAIN fwd THEN fwd[m] ELSE {}) \cap needed
                        \subseteq Range(placed)}
    IN  IF ready = {} THEN placed
        ELSE LexicographicOrder(fwd, needed, Append(placed, Smallest(ready)))

\* The load orders resolve can return with success for a target vector.
LoadOrders(T) ==
    {r.load_order : r \in {x \in resolve_dependencies(modules, dependency_graph,
                                                      reverse_graph, T) :
                              x.success}}

(***************************************************************************)
(* C33: resolve is deterministic.  For the registered manifests and a      *)
(* target vector, every successful resolve returns one and the same load   *)
(* order: the one that takes, among the nodes ready at the same time, the  *)
(* lexicographically smallest name.                                        *)
(***************************************************************************)
C33_ResolveDeterministic ==
    \A T \in Targets(modules) :
        \A order \in LoadOrders(T) :
            order = LexicographicOrder(dependency_graph,
                                       ForwardClosure(dependency_graph, Range(T)),
                                       <<>>)

\* b and c both depend on a only: they are ready at the same time, and
\* resolve of the two returns them in either order.
TwoOrdersForOneRegistry ==
    /\ pc = "resolver"
    /\ DOMAIN modules = {"a", "b", "c"}
    /\ modules["a"] = ra1 /\ modules["b"] = rb1 /\ modules["c"] = rc3
    /\ LoadOrders(<<"b", "c">>) = {<<"a", "b", "c">>, <<"a", "c", "b">>}

\* The numeric triples of two versions are the same.
SameTriple(v, w) ==
    v.major = w.major /\ v.minor = w.minor /\ v.patch = w.patch

\* ~w: the same major and minor, and a patch of at least w's.
TildeMatches(v, w) ==
    v.major = w.major /\ v.minor = w.minor /\ v.patch >= w.patch

(***************************************************************************)
(* C34: semver algebra.  For the plain X.Y.Z versions a (the available     *)
(* version of the call) and b (the version of its requirement):            *)
(* compare(a, b) = -compare(b, a) and compare(a, a) = 0; a satisfies       *)
(* ">=a", "==a" and "~a"; a requirement without operator gives what ==     *)
(* gives, which is equality of the triples; the empty requirement is       *)
(* satisfied; "~b" is satisfied exactly by the same major and minor with   *)
(* patch >= b's; and the results the helpers returned for the call are     *)
(* these.                                                                  *)
(***************************************************************************)
C34_SemverAlgebra ==
    LET a == pc.available_version
        b == pc.required_version.version
        op == pc.required_version.op
    IN  (a \in PlainVersions /\ b \in PlainVersions)
        => /\ compare_versions(a, b) = 0 - compare_versions(b, a)
           /\ compare_versions(a, a) = 0
           /\ compare_versions(a, b) \in {-1, 0, 1}
           /\ version_satisfies(a, Req(">=", a))
           /\ version_satisfies(a, Req("==", a))
           /\ version_satisfies(a, Req("~", a))
           /\ version_satisfies(a, Req("", b)) = version_satisfies(a, Req("==", b))
           /\ version_satisfies(a, Req("==", b)) = SameTriple(a, b)
           /\ version_satisfies(a, NoReq)
           /\ version_satisfies(a, Req("~", b)) = TildeMatches(a, b)
           /\ pc.at = "compared"
                => pc.cmp = (IF TripleLess(a, b) THEN -1
                             ELSE IF TripleLess(b, a) THEN 1 ELSE 0)
           /\ pc.at = "satisfied"
                => /\ op \in {"", "=="} => pc.satisfied = SameTriple(a, b)
                   /\ op = "~" => pc.satisfied = TildeMatches(a, b)
                   /\ op = "empty" => pc.satisfied = TRUE
                   /\ (op = ">=" /\ a = b) => pc.satisfied = TRUE

\* version_satisfies has answered true for a tilde requirement with a
\* smaller patch, on plain versions that compare as greater.
C34_Witness ==
    /\ pc.at = "satisfied"
    /\ pc.required_version.op = "~"
    /\ pc.available_version \in PlainVersions
    /\ pc.required_version.version \in PlainVersions
    /\ pc.available_version.patch > pc.required_version.version.patch
    /\ pc.satisfied = TRUE
    /\ compare_versions(pc.available_version, pc.required_version.version) = 1
    /\ compare_versions(pc.required_version.version, pc.available_version) = -1

\* The order of two versions by their numeric triples, suffixes ignored.
TripleCompare(v, w) ==
    IF TripleLess(v, w) THEN -1 ELSE IF TripleLess(w, v) THEN 1 ELSE 0

\* What a requirement asks of the triples, suffixes ignored.
TripleSatisfies(v, req) ==
    CASE req.op \in {"", "=="} -> TripleCompare(v, req.version) = 0
      [] req.op = ">=" -> TripleCompare(v, req.version) >= 0
      [] req.op = ">"  -> TripleCompare(v, req.version) > 0
      [] req.op = "<=" -> TripleCompare(v, req.version) <= 0
      [] req.op = "<"  -> TripleCompare(v, req.version) < 0
      [] req.op = "~"  -> TildeMatches(v, req.version)
      [] req.op = "empty" -> TRUE
      [] OTHER -> FALSE

(***************************************************************************)
(* C35: version ordering uses only the numeric triple.  For any two valid  *)
(* versions, with or without a suffix, compare returns the lexicographic   *)
(* order of (major, minor, patch), and a requirement is satisfied exactly  *)
(* when its operator holds of the triples.                                 *)
(***************************************************************************)
C35_OrderingByTriple ==
    /\ pc.at = "compared"
        => pc.cmp = TripleCompare(pc.available_version,
                                  pc.required_version.version)
    /\ pc.at = "satisfied"
        => pc.satisfied = TripleSatisfies(pc.available_version,
                                          pc.required_version)

\* On versions without suffix the helpers give the order of the triples.
OrderingByTripleOfPlainVersions ==
    (pc.available_version \in PlainVersions
       /\ pc.required_version.version \in PlainVersions)
    => C35_OrderingByTriple

\* A version with a suffix compares as equal to a version with a greater
\* triple, and satisfies == of it.
SuffixedComparesEqual ==
    /\ pc.at = "satisfied"
    /\ pc.available_version \in SuffixedVersions
    /\ pc.required_version.op = "=="
    /\ TripleLess(pc.available_version, pc.required_version.version)
    /\ pc.satisfied = TRUE

\* The dependency closure of a module over the resolver's forward map.
Closure(module_name) == ForwardClosure(dependency_graph, {module_name})

\* The modules resolve_and_load_dependencies(M) can call enable_module on:
\* the registered names other than M of a load order resolve returns.
RecursiveEnables(M) ==
    UNION {Range(r.load_order) \cap DOMAIN module_registry
           : r \in {x \in resolve_dependencies(modules, dependency_graph,
                                                reverse_graph, <<M>>) :
                        x.success}}
    \ {M}

(***************************************************************************)
(* C36: enable(M) terminates when every hook returns.  On a serving host,  *)
(* for every registered M, every module enable(M) can recurse on has a     *)
(* dependency closure that lies within M's and does not hold M, so it is   *)
(* strictly smaller; and enable(M) has its outcomes, whatever the registry *)
(* (cycles, missing dependencies and optional edges included).             *)
(***************************************************************************)
C36_EnableTerminates ==
    (pc = "serving" /\ initialized)
    => \A M \in DOMAIN module_registry :
        /\ \A x \in RecursiveEnables(M) :
            /\ Closure(x) \subseteq Closure(M)
            /\ M \notin Closure(x)
            /\ Cardinality(Closure(x)) < Cardinality(Closure(M))
        /\ enable_module(D, M) # {}

\* enable of the top of a chain of three Installed modules recurses twice
\* and returns with the three initialized.
C36_Witness ==
    /\ pc = "serving" /\ initialized
    /\ \E M \in InState(module_registry, {"INSTALLED"}) :
        /\ Cardinality(RecursiveEnables(M)) = 2
        /\ RecursiveEnables(M) \subseteq InState(module_registry, {"INSTALLED"})
        /\ \E x \in RecursiveEnables(M) : RecursiveEnables(x) # {}
        /\ \E r \in enable_module(D, M) :
            /\ r.ok
            /\ {c.name : c \in {e \in Calls(r.d.log, {"init"}) : e.ok}}
                    = RecursiveEnables(M) \cup {M}

\* On a registry with a cycle through M, enable(M) returns failure without
\* a recursive enable.
EnableOnCycleReturns ==
    /\ pc = "serving" /\ initialized
    /\ \E M \in InState(module_registry, {"INSTALLED"}) :
        /\ M \in ForwardClosure(dependency_graph, dependency_graph[M])
        /\ RecursiveEnables(M) = {}
        /\ enable_module(D, M) # {}
        /\ \A r \in enable_module(D, M) : ~r.ok /\ r.d.log = <<>>

\* The registered mandatory dependencies of a module, by the manifest the
\* resolver holds for it.
RegisteredMandatoryDeps(M) ==
    (IF M \in DOMAIN modules THEN MandatoryDeps(modules[M]) ELSE {})
        \cap DOMAIN module_registry

(***************************************************************************)
(* C37: whenever the loader holds a record for a module M, it holds a      *)
(* record for every registered mandatory dependency of M.                  *)
(***************************************************************************)
C37_DependenciesStayLoaded ==
    \A M \in DOMAIN loaded_modules :
        RegisteredMandatoryDeps(M) \subseteq DOMAIN loaded_modules

\* The same with every close of a handle succeeding and the registry
\* holding the manifests the resolver holds: the module is enabled (its
\* registry state is not Installed) and a dependency has been disabled.
UnloadedUnderEnabledDependent ==
    /\ pc = "serving" /\ initialized
    /\ \A n \in DOMAIN module_registry : module_registry[n].manifest = modules[n]
    /\ \A n \in InState(module_registry, {"INSTALLED"}) : n \notin DOMAIN loaded_modules
    /\ \E M \in DOMAIN loaded_modules \cap DOMAIN module_registry :
        /\ module_registry[M].state \in {"INITIALIZED", "RUNNING", "STOPPED"}
        /\ \E x \in RegisteredMandatoryDeps(M) :
            /\ x \notin DOMAIN loaded_modules
            /\ module_registry[x].state = "INSTALLED"

\* enable leaves the dependencies loaded: in every successful outcome of
\* enable(M) the loader holds M and the mandatory dependencies the resolver
\* has for it.
EnableLoadsDependencies ==
    (pc = "serving" /\ initialized)
    => \A M \in DOMAIN module_registry :
        \A r \in enable_module(D, M) :
            r.ok => (MandatoryDeps(modules[M]) \cap DOMAIN module_registry)
                        \cup {M} \subseteq DOMAIN r.d.ld

\* In a log, the calls of one kind into a module precede the calls of that
\* kind into the modules it mandatorily depends on (by the manifests the
\* resolver held on entry).
DependentsFirst(log, kind) ==
    \A i, j \in DOMAIN log :
        (/\ log[i].call = kind /\ log[j].call = kind
         /\ log[i].name \in DOMAIN modules
         /\ log[j].name \in MandatoryDeps(modules[log[i].name]))
        => i < j

(***************************************************************************)
(* C38: during shutdown modules are stopped and unloaded in reverse        *)
(* dependency order.  In every outcome of shutdown from a serving host,    *)
(* the stop hook of a module is called before the stop hook of any module  *)
(* it mandatorily depends on, and its library is closed before theirs.     *)
(***************************************************************************)
C38_ShutdownReverseDependencyOrder ==
    (pc = "serving" /\ initialized)
    => \A s \in shutdown(D, initialized) :
            /\ DependentsFirst(s.d.log, "stop")
            /\ DependentsFirst(s.d.log, "dlclose")

\* b depends on a and both are Running: shutdown has an outcome that stops
\* and closes b first, and one that stops and closes a first.
ShutdownInEitherOrder ==
    /\ pc = "serving" /\ initialized
    /\ InState(module_registry, {"RUNNING"}) = {"a", "b"}
    /\ "a" \in MandatoryDeps(modules["b"])
    /\ \E s \in shutdown(D, initialized) :
            DependentsFirst(s.d.log, "stop") /\ DependentsFirst(s.d.log, "dlclose")
    /\ \E s \in shutdown(D, initialized) :
            /\ AllCallsOk(s.d.log)
            /\ ~DependentsFirst(s.d.log, "stop")
            /\ ~DependentsFirst(s.d.log, "dlclose")

\* The positions of the destroy calls into a module in a log.
DestroyCalls(log, module_name) ==
    {i \in DOMAIN log : log[i].call = "destroy" /\ log[i].name = module_name}

\* The loader holds a record for a module that no command unloads: the
\* module is not registered, or its registry state is Installed or Error.
Stale(d, module_name) ==
    /\ module_name \in DOMAIN d.ld
    /\ \/ module_name \notin DOMAIN d.reg
       \/ d.reg[module_name].state \in {"INSTALLED", "ERROR"}

\* The fields every supervisor operation can leave from the current state.
LeftByOperations ==
    {r.d : r \in CommandOutcomes(D)} \cup {r.d : r \in shutdown(D, initialized)}

\* The destroy calls of a log left from the current state are each made once
\* per module, on a record that was initialized, after a successful stop if
\* it was running, and not on a stale record; a record that survives its
\* destroy is stale.
DestroyedOnce(d1) ==
    \A n \in AllNames :
        /\ Cardinality(DestroyCalls(d1.log, n)) <= 1
        /\ \A i \in DestroyCalls(d1.log, n) :
            /\ n \in DOMAIN loaded_modules
            /\ loaded_modules[n].initialized
            /\ ~Stale(D, n)
            /\ loaded_modules[n].running
                => \E j \in 1..(i - 1) :
                      /\ d1.log[j].call = "stop" /\ d1.log[j].name = n
                      /\ d1.log[j].ok
            /\ \A j \in 1..(i - 1) :
                    (d1.log[j].call = "stop" /\ d1.log[j].name = n) => d1.log[j].ok
            /\ n \in DOMAIN d1.ld => Stale(d1, n)
        /\ Stale(D, n) => Stale(d1, n)

(***************************************************************************)
(* C39: the destroy hook is invoked only on a loader record that is        *)
(* initialized and not running, and at most once per load.  In every       *)
(* outcome of every supervisor operation a module is destroyed at most     *)
(* once, on an initialized record that is not running at the call; a       *)
(* record that outlives its destroy call (the close failed) is one no      *)
(* later operation unloads, and it stays so; initialize destroys nothing.  *)
(* When the stop hook fails during an unload, there is no destroy and no   *)
(* close, the unload fails and the loader's records are as before.         *)
(***************************************************************************)
C39_DestroyOncePerLoad ==
    /\ (pc = "serving" /\ initialized)
        => \A d1 \in LeftByOperations : DestroyedOnce(d1)
    /\ (pc = "boot")
        => \A r \in initialize(D, initialized) :
                Calls(r.d.log, {"destroy"}) = {}
    /\ \A n \in DOMAIN loaded_modules :
        \A r \in loader_unload_module(D, n) :
            /\ (Calls(r.d.log, {"destroy"}) # {})
                <=> (/\ loaded_modules[n].initialized
                     /\ HookFailed({r}, "stop", n) = {})
            /\ HookFailed({r}, "stop", n) # {}
                => /\ ~r.ok
                   /\ Calls(r.d.log, {"destroy", "dlclose"}) = {}
                   /\ r.d.ld = loaded_modules

\* A Running module: its unload has an outcome in which the stop hook
\* fails, one in which it is destroyed and its record dropped, and one in
\* which it is destroyed and the record stays; disable leaves it in Error
\* in the last.
C39_Witness ==
    /\ pc = "serving" /\ initialized
    /\ \E n \in InState(module_registry, {"RUNNING"}) \cap DOMAIN loaded_modules :
        /\ loaded_modules[n].running
        /\ \E r \in loader_unload_module(D, n) : HookFailed({r}, "stop", n) # {}
        /\ \E r \in loader_unload_module(D, n) :
                r.ok /\ DestroyCalls(r.d.log, n) # {} /\ n \notin DOMAIN r.d.ld
        /\ \E r \in disable_module(D, n) :
                /\ ~r.ok /\ DestroyCalls(r.d.log, n) # {}
                /\ n \in DOMAIN r.d.ld /\ r.d.reg[n].state = "ERROR"

\* A record that was destroyed and not closed is there, and no operation
\* destroys it again.
DestroyedRecordStays ==
    /\ pc = "serving" /\ initialized
    /\ \E n \in DOMAIN module_registry \cap DOMAIN loaded_modules :
        /\ module_registry[n].state = "ERROR"
        /\ loaded_modules[n].initialized /\ ~loaded_modules[n].running
        /\ \A d1 \in LeftByOperations : DestroyCalls(d1.log, n) = {}

====
